---------------------------- MODULE Spec2Model ----------------------------
(***************************************************************************)
(* A model of laya's event subsystem: the converter from_sdl_event          *)
(* (src/laya/event_types.cpp), the eager collection event_range and the    *)
(* lazy cursor event_view::iterator (src/laya/event_polling.cpp and        *)
(* include/laya/event_polling.hpp), all over the engine's FIFO event queue. *)
(***************************************************************************)
EXTENDS Integers, Sequences, FiniteSets, TLC

(***************************************************************************)
(* Engine discriminants (SDL_EventType) named by the converter's switch.   *)
(***************************************************************************)
SDL_EVENT_QUIT == 256
SDL_EVENT_WINDOW_SHOWN == 514
SDL_EVENT_WINDOW_HIDDEN == 515
SDL_EVENT_WINDOW_EXPOSED == 516
SDL_EVENT_WINDOW_MOVED == 517
SDL_EVENT_WINDOW_RESIZED == 518
SDL_EVENT_WINDOW_PIXEL_SIZE_CHANGED == 519
SDL_EVENT_WINDOW_MINIMIZED == 521
SDL_EVENT_WINDOW_MAXIMIZED == 522
SDL_EVENT_WINDOW_RESTORED == 523
SDL_EVENT_WINDOW_MOUSE_ENTER == 524
SDL_EVENT_WINDOW_MOUSE_LEAVE == 525
SDL_EVENT_WINDOW_FOCUS_GAINED == 526
SDL_EVENT_WINDOW_FOCUS_LOST == 527
SDL_EVENT_WINDOW_CLOSE_REQUESTED == 528
SDL_EVENT_WINDOW_HIT_TEST == 529
SDL_EVENT_WINDOW_ICCPROF_CHANGED == 530
SDL_EVENT_WINDOW_DISPLAY_CHANGED == 531
SDL_EVENT_KEY_DOWN == 768
SDL_EVENT_KEY_UP == 769
SDL_EVENT_TEXT_EDITING == 770
SDL_EVENT_TEXT_INPUT == 771
SDL_EVENT_MOUSE_MOTION == 1024
SDL_EVENT_MOUSE_BUTTON_DOWN == 1025
SDL_EVENT_MOUSE_BUTTON_UP == 1026
SDL_EVENT_MOUSE_WHEEL == 1027
SDL_EVENT_JOYSTICK_AXIS_MOTION == 1536
SDL_EVENT_JOYSTICK_HAT_MOTION == 1538
SDL_EVENT_JOYSTICK_BUTTON_DOWN == 1539
SDL_EVENT_JOYSTICK_BUTTON_UP == 1540

SDL_BUTTON_LEFT == 1
SDL_BUTTON_MIDDLE == 2
SDL_BUTTON_RIGHT == 3
SDL_BUTTON_X1 == 4
SDL_BUTTON_X2 == 5

\* sizeof(event.text): char text[32] of text_input_event / text_editing_event.
TextBufferSize == 32

(***************************************************************************)
(* Integer conversions of the assignments in from_sdl_event.  The engine's *)
(* timestamp is a 64-bit count, written here as its two 32-bit words       *)
(* [hi, lo]; the typed events keep a std::uint32_t, so the assignment      *)
(* keeps the low word.  The engine's mouse coordinates and wheel amounts   *)
(* are floats, written here as a whole number of halves (h stands for      *)
(* h/2); a float assigned to a std::int32_t field is truncated toward      *)
(* zero.                                                                   *)
(***************************************************************************)
U64(hi, lo) == [hi |-> hi, lo |-> lo]

ToUint32(n) == n.lo

FloatToInt32(h) == IF h >= 0 THEN h \div 2 ELSE -((-h) \div 2)

\* explicit window_id(std::uint32_t id): m_id{id}
window_id(id) == id

(***************************************************************************)
(* Outcomes of a call: a returned value, or a thrown std::runtime_error    *)
(* whose what() is the message prefix followed by std::to_string(arg).     *)
(***************************************************************************)
Returned(v) == [threw |-> FALSE, value |-> v]

ThrewRuntimeError(msg, arg) == [threw |-> TRUE, what |-> <<msg, arg>>]

(***************************************************************************)
(* The window payload variant window_event_data.                           *)
(***************************************************************************)
window_event_data_none == [alt |-> "window_event_data_none"]

window_event_data_position(x, y) == [alt |-> "window_event_data_position", x |-> x, y |-> y]

window_event_data_size(w, h) == [alt |-> "window_event_data_size", width |-> w, height |-> h]

window_event_data_display(i) == [alt |-> "window_event_data_display", display_index |-> i]

\* The std::pair<window_event_type, window_event_data> of a return statement.
WindowPair(t, d) == Returned([first |-> t, second |-> d])

convert_window_event_data(sdl_type, data1, data2) ==
    CASE sdl_type = SDL_EVENT_WINDOW_SHOWN -> WindowPair("shown", window_event_data_none)
      [] sdl_type = SDL_EVENT_WINDOW_HIDDEN -> WindowPair("hidden", window_event_data_none)
      [] sdl_type = SDL_EVENT_WINDOW_EXPOSED -> WindowPair("exposed", window_event_data_none)
      [] sdl_type = SDL_EVENT_WINDOW_MOVED ->
            WindowPair("moved", window_event_data_position(data1, data2))
      [] sdl_type = SDL_EVENT_WINDOW_RESIZED ->
            WindowPair("resized", window_event_data_size(data1, data2))
      [] sdl_type = SDL_EVENT_WINDOW_PIXEL_SIZE_CHANGED ->
            WindowPair("size_changed", window_event_data_size(data1, data2))
      [] sdl_type = SDL_EVENT_WINDOW_MINIMIZED -> WindowPair("minimized", window_event_data_none)
      [] sdl_type = SDL_EVENT_WINDOW_MAXIMIZED -> WindowPair("maximized", window_event_data_none)
      [] sdl_type = SDL_EVENT_WINDOW_RESTORED -> WindowPair("restored", window_event_data_none)
      [] sdl_type = SDL_EVENT_WINDOW_MOUSE_ENTER -> WindowPair("enter", window_event_data_none)
      [] sdl_type = SDL_EVENT_WINDOW_MOUSE_LEAVE -> WindowPair("leave", window_event_data_none)
      [] sdl_type = SDL_EVENT_WINDOW_FOCUS_GAINED ->
            WindowPair("focus_gained", window_event_data_none)
      [] sdl_type = SDL_EVENT_WINDOW_FOCUS_LOST -> WindowPair("focus_lost", window_event_data_none)
      [] sdl_type = SDL_EVENT_WINDOW_CLOSE_REQUESTED -> WindowPair("close", window_event_data_none)
      [] sdl_type = SDL_EVENT_WINDOW_HIT_TEST -> WindowPair("hit_test", window_event_data_none)
      [] sdl_type = SDL_EVENT_WINDOW_ICCPROF_CHANGED ->
            WindowPair("icc_profile_changed", window_event_data_none)
      [] sdl_type = SDL_EVENT_WINDOW_DISPLAY_CHANGED ->
            WindowPair("display_changed", window_event_data_display(data1))
      [] OTHER -> ThrewRuntimeError("Unknown SDL window event type: ", sdl_type)

\* Case labels that also route SDL_EVENT_WINDOW_METAL_VIEW_RESIZED (520) to
\* the window branch.
WindowCaseLabels_one_more ==
    { SDL_EVENT_WINDOW_SHOWN, SDL_EVENT_WINDOW_HIDDEN, SDL_EVENT_WINDOW_EXPOSED,
      SDL_EVENT_WINDOW_MOVED, SDL_EVENT_WINDOW_RESIZED, SDL_EVENT_WINDOW_PIXEL_SIZE_CHANGED,
      SDL_EVENT_WINDOW_MINIMIZED, SDL_EVENT_WINDOW_MAXIMIZED, SDL_EVENT_WINDOW_RESTORED,
      SDL_EVENT_WINDOW_MOUSE_ENTER, SDL_EVENT_WINDOW_MOUSE_LEAVE,
      SDL_EVENT_WINDOW_FOCUS_GAINED, SDL_EVENT_WINDOW_FOCUS_LOST,
      SDL_EVENT_WINDOW_CLOSE_REQUESTED, SDL_EVENT_WINDOW_HIT_TEST,
      SDL_EVENT_WINDOW_ICCPROF_CHANGED, SDL_EVENT_WINDOW_DISPLAY_CHANGED, 520 }

\* The case labels of from_sdl_event's window branch.
WindowCaseLabels ==
    { SDL_EVENT_WINDOW_SHOWN, SDL_EVENT_WINDOW_HIDDEN, SDL_EVENT_WINDOW_EXPOSED,
      SDL_EVENT_WINDOW_MOVED, SDL_EVENT_WINDOW_RESIZED, SDL_EVENT_WINDOW_PIXEL_SIZE_CHANGED,
      SDL_EVENT_WINDOW_MINIMIZED, SDL_EVENT_WINDOW_MAXIMIZED, SDL_EVENT_WINDOW_RESTORED,
      SDL_EVENT_WINDOW_MOUSE_ENTER, SDL_EVENT_WINDOW_MOUSE_LEAVE,
      SDL_EVENT_WINDOW_FOCUS_GAINED, SDL_EVENT_WINDOW_FOCUS_LOST,
      SDL_EVENT_WINDOW_CLOSE_REQUESTED, SDL_EVENT_WINDOW_HIT_TEST,
      SDL_EVENT_WINDOW_ICCPROF_CHANGED, SDL_EVENT_WINDOW_DISPLAY_CHANGED }

(***************************************************************************)
(* std::strncpy(event.text, src, sizeof(event.text) - 1) followed by       *)
(* event.text[sizeof(event.text) - 1] = '\0'.  src is the content of the   *)
(* engine's NUL-terminated string (a sequence of non-zero bytes); the      *)
(* result is the whole 32-byte buffer: strncpy pads with NULs.             *)
(***************************************************************************)
\* A copy of sizeof(event.text) bytes with no terminator written after it.
CopyText_no_terminator(src) ==
    [i \in 1..TextBufferSize |-> IF i <= Len(src) THEN src[i] ELSE 0]

CopyText(src) ==
    [i \in 1..TextBufferSize |->
        IF i <= TextBufferSize - 1 /\ i <= Len(src) THEN src[i] ELSE 0]

\* An inner switch that reports every number above SDL_BUTTON_X2 as x2.
MouseButtonOf_clamped(b) ==
    CASE b = SDL_BUTTON_LEFT -> "left"
      [] b = SDL_BUTTON_MIDDLE -> "middle"
      [] b = SDL_BUTTON_RIGHT -> "right"
      [] b = SDL_BUTTON_X1 -> "x1"
      [] b >= SDL_BUTTON_X2 -> "x2"
      [] OTHER -> "left"

\* The inner switch on sdl_ev.button.button.
MouseButtonOf(b) ==
    CASE b = SDL_BUTTON_LEFT -> "left"
      [] b = SDL_BUTTON_MIDDLE -> "middle"
      [] b = SDL_BUTTON_RIGHT -> "right"
      [] b = SDL_BUTTON_X1 -> "x1"
      [] b = SDL_BUTTON_X2 -> "x2"
      [] OTHER -> "left"

\* A window case that hands data2, data1 to convert_window_event_data.
FromWindow_swapped(sdl_ev) ==
    LET r == convert_window_event_data(sdl_ev.type, sdl_ev.window.data2, sdl_ev.window.data1)
    IN  IF r.threw THEN r
        ELSE Returned([alt |-> "window_event",
                       timestamp |-> ToUint32(sdl_ev.window.timestamp),
                       id |-> window_id(sdl_ev.window.windowID),
                       event_type |-> r.value.first,
                       data |-> r.value.second])

\* A window case that also keeps the raw data1 and data2 in the event, as
\* the window_event of include/laya/events/event_types.hpp declares them.
FromWindow_raw_data(sdl_ev) ==
    LET r == convert_window_event_data(sdl_ev.type, sdl_ev.window.data1, sdl_ev.window.data2)
    IN  IF r.threw THEN r
        ELSE Returned([alt |-> "window_event",
                       timestamp |-> ToUint32(sdl_ev.window.timestamp),
                       id |-> window_id(sdl_ev.window.windowID),
                       event_type |-> r.value.first,
                       data |-> r.value.second,
                       data1 |-> sdl_ev.window.data1,
                       data2 |-> sdl_ev.window.data2])

\* A window branch that reports a focus-gained record as take_focus.
FromWindow_take_focus(sdl_ev) ==
    LET r == convert_window_event_data(sdl_ev.type, sdl_ev.window.data1, sdl_ev.window.data2)
    IN  IF r.threw THEN r
        ELSE Returned([alt |-> "window_event",
                       timestamp |-> ToUint32(sdl_ev.window.timestamp),
                       id |-> window_id(sdl_ev.window.windowID),
                       event_type |-> IF sdl_ev.type = SDL_EVENT_WINDOW_FOCUS_GAINED
                                      THEN "take_focus" ELSE r.value.first,
                       data |-> r.value.second])

FromWindow(sdl_ev) ==
    LET r == convert_window_event_data(sdl_ev.type, sdl_ev.window.data1, sdl_ev.window.data2)
    IN  IF r.threw THEN r
        ELSE Returned([alt |-> "window_event",
                       timestamp |-> ToUint32(sdl_ev.window.timestamp),
                       id |-> window_id(sdl_ev.window.windowID),
                       event_type |-> r.value.first,
                       data |-> r.value.second])

FromKey(sdl_ev) ==
    Returned([alt |-> "key_event",
              timestamp |-> ToUint32(sdl_ev.key.timestamp),
              id |-> window_id(sdl_ev.key.windowID),
              key_state |-> IF sdl_ev.type = SDL_EVENT_KEY_DOWN THEN "pressed" ELSE "released",
              scancode |-> sdl_ev.key.scancode,
              keycode |-> sdl_ev.key.key,
              mod |-> sdl_ev.key.mod,
              repeat |-> (sdl_ev.key.repeat # 0)])

FromTextInput(sdl_ev) ==
    Returned([alt |-> "text_input_event",
              timestamp |-> ToUint32(sdl_ev.text.timestamp),
              id |-> window_id(sdl_ev.text.windowID),
              text |-> CopyText(sdl_ev.text.text)])

FromTextEditing(sdl_ev) ==
    Returned([alt |-> "text_editing_event",
              timestamp |-> ToUint32(sdl_ev.edit.timestamp),
              id |-> window_id(sdl_ev.edit.windowID),
              start |-> sdl_ev.edit.start,
              length |-> sdl_ev.edit.length,
              text |-> CopyText(sdl_ev.edit.text)])

FromMouseMotion(sdl_ev) ==
    Returned([alt |-> "mouse_motion_event",
              timestamp |-> ToUint32(sdl_ev.motion.timestamp),
              id |-> window_id(sdl_ev.motion.windowID),
              which |-> sdl_ev.motion.which,
              state |-> sdl_ev.motion.state,
              x |-> FloatToInt32(sdl_ev.motion.x),
              y |-> FloatToInt32(sdl_ev.motion.y),
              xrel |-> FloatToInt32(sdl_ev.motion.xrel),
              yrel |-> FloatToInt32(sdl_ev.motion.yrel)])

FromMouseButton(sdl_ev) ==
    Returned([alt |-> "mouse_button_event",
              timestamp |-> ToUint32(sdl_ev.button.timestamp),
              id |-> window_id(sdl_ev.button.windowID),
              which |-> sdl_ev.button.which,
              mouse_button |-> MouseButtonOf(sdl_ev.button.button),
              button_state |->
                  IF sdl_ev.type = SDL_EVENT_MOUSE_BUTTON_DOWN THEN "pressed" ELSE "released",
              clicks |-> sdl_ev.button.clicks,
              x |-> FloatToInt32(sdl_ev.button.x),
              y |-> FloatToInt32(sdl_ev.button.y)])

FromMouseWheel(sdl_ev) ==
    Returned([alt |-> "mouse_wheel_event",
              timestamp |-> ToUint32(sdl_ev.wheel.timestamp),
              id |-> window_id(sdl_ev.wheel.windowID),
              which |-> sdl_ev.wheel.which,
              x |-> FloatToInt32(sdl_ev.wheel.x),
              y |-> FloatToInt32(sdl_ev.wheel.y),
              precise_x |-> sdl_ev.wheel.x,
              precise_y |-> sdl_ev.wheel.y,
              direction |-> sdl_ev.wheel.direction])

FromJoystickAxis(sdl_ev) ==
    Returned([alt |-> "joystick_axis_event",
              timestamp |-> ToUint32(sdl_ev.jaxis.timestamp),
              which |-> sdl_ev.jaxis.which,
              axis |-> sdl_ev.jaxis.axis,
              value |-> sdl_ev.jaxis.value])

\* A joystick-button case that takes the state from the button field.
FromJoystickButton_state_from_payload(sdl_ev) ==
    Returned([alt |-> "joystick_button_event",
              timestamp |-> ToUint32(sdl_ev.jbutton.timestamp),
              which |-> sdl_ev.jbutton.which,
              button |-> sdl_ev.jbutton.button,
              button_state |-> IF sdl_ev.jbutton.button # 0 THEN "pressed" ELSE "released"])

FromJoystickButton(sdl_ev) ==
    Returned([alt |-> "joystick_button_event",
              timestamp |-> ToUint32(sdl_ev.jbutton.timestamp),
              which |-> sdl_ev.jbutton.which,
              button |-> sdl_ev.jbutton.button,
              button_state |->
                  IF sdl_ev.type = SDL_EVENT_JOYSTICK_BUTTON_DOWN THEN "pressed" ELSE "released"])

FromJoystickHat(sdl_ev) ==
    Returned([alt |-> "joystick_hat_event",
              timestamp |-> ToUint32(sdl_ev.jhat.timestamp),
              which |-> sdl_ev.jhat.which,
              hat |-> sdl_ev.jhat.hat,
              value |-> sdl_ev.jhat.value])

\* A default branch that gives back a value-initialised event instead.
UnsupportedKind_default_event(sdl_ev) ==
    Returned([alt |-> "quit_event", timestamp |-> 0])

\* The default branch of the top-level switch.
UnsupportedKind(sdl_ev) ==
    ThrewRuntimeError("Unsupported SDL event type: ", sdl_ev.type)

(***************************************************************************)
(* event from_sdl_event(const SDL_Event&): the top-level switch.  A raw    *)
(* record is [type, <active union member>]; only the member that the       *)
(* matching case reads is present.                                         *)
(***************************************************************************)
from_sdl_event(sdl_ev) ==
    CASE sdl_ev.type = SDL_EVENT_QUIT ->
            Returned([alt |-> "quit_event", timestamp |-> ToUint32(sdl_ev.quit.timestamp)])
      [] sdl_ev.type \in WindowCaseLabels -> FromWindow(sdl_ev)
      [] sdl_ev.type \in {SDL_EVENT_KEY_DOWN, SDL_EVENT_KEY_UP} -> FromKey(sdl_ev)
      [] sdl_ev.type = SDL_EVENT_TEXT_INPUT -> FromTextInput(sdl_ev)
      [] sdl_ev.type = SDL_EVENT_TEXT_EDITING -> FromTextEditing(sdl_ev)
      [] sdl_ev.type = SDL_EVENT_MOUSE_MOTION -> FromMouseMotion(sdl_ev)
      [] sdl_ev.type \in {SDL_EVENT_MOUSE_BUTTON_DOWN, SDL_EVENT_MOUSE_BUTTON_UP} ->
            FromMouseButton(sdl_ev)
      [] sdl_ev.type = SDL_EVENT_MOUSE_WHEEL -> FromMouseWheel(sdl_ev)
      [] sdl_ev.type = SDL_EVENT_JOYSTICK_AXIS_MOTION -> FromJoystickAxis(sdl_ev)
      [] sdl_ev.type \in {SDL_EVENT_JOYSTICK_BUTTON_DOWN, SDL_EVENT_JOYSTICK_BUTTON_UP} ->
            FromJoystickButton(sdl_ev)
      [] sdl_ev.type = SDL_EVENT_JOYSTICK_HAT_MOTION -> FromJoystickHat(sdl_ev)
      [] OTHER -> UnsupportedKind(sdl_ev)

(***************************************************************************)
(* Raw records: the engine's tagged union, written as the discriminant and *)
(* the union member that is active for it.                                 *)
(***************************************************************************)
RawQuit(t) == [type |-> SDL_EVENT_QUIT, quit |-> [timestamp |-> t]]

RawWindow(ty, t, w, d1, d2) ==
    [type |-> ty, window |-> [timestamp |-> t, windowID |-> w, data1 |-> d1, data2 |-> d2]]

RawMotion(t, w, x, y) ==
    [type |-> SDL_EVENT_MOUSE_MOTION,
     motion |-> [timestamp |-> t, windowID |-> w, which |-> 0, state |-> 0,
                 x |-> x, y |-> y, xrel |-> 2, yrel |-> 0]]

\* A record of a kind the converter has no case for.
RawOther(ty, t) == [type |-> ty, common |-> [timestamp |-> t]]

\* Discriminants outside the converter's switch: SDL_EVENT_FIRST,
\* WINDOW_METAL_VIEW_RESIZED, WINDOW_OCCLUDED, KEYMAP_CHANGED,
\* JOYSTICK_BALL_MOTION, SDL_EVENT_USER.
UnsupportedTypes == {0, 520, 534, 772, 1537, 32768}

(***************************************************************************)
(* Bounds of the model.                                                    *)
(***************************************************************************)
\* Most records the engine holds pending at once.
MaxQueue == 3

\* The records the engine delivers in the queue specifications: a mouse
\* motion (x = 10.5, y = 4), a quit, and a keymap-changed record, which
\* the converter does not support.
QueueSamples == { RawMotion(U64(0, 7), 1, 21, 8), RawQuit(U64(0, 9)), RawOther(772, U64(0, 8)) }

IterIds == {1, 2}

(***************************************************************************)
(* State.                                                                  *)
(***************************************************************************)
VARIABLES
    queue,      \* the engine's FIFO of pending raw records
    range,      \* the event_range object: constructed flag and m_events
    other_range,\* a second event_range object: constructed flag and m_events
    iter,       \* the event_view::iterator objects: m_current_event, m_has_event
    last,       \* history: the last operation, its pre-state and return value
    passes,     \* history: what the last two iteration passes of the range saw
    since,      \* history: m_events as last written, and the records pushed since
    pc,         \* the library call in progress ("crashed": the process has ended), or
                \* the position of the comparison run
    Q0,         \* the queue snapshot of the comparison run
    yielded,    \* the events the comparison run's cursor loop yielded
    conv_in,    \* the two raw records handed to the converter
    conv_out,   \* the converter's outcome for each of them
    windows,    \* the window objects: m_window and m_id of each
    sdl_windows,\* the engine's native windows: SDL_DestroyWindow calls on each
    arrivals,   \* history: every raw record the engine delivered, in order
    received,   \* history: the events each consumer of the queue was given
    begun       \* history: how many records had arrived at each cursor's begin()

vars ==
    <<queue, range, other_range, iter, last, passes, since, pc, Q0, yielded, conv_in, conv_out,
      windows, sdl_windows, arrivals, received, begun>>

rangeVars == <<range, other_range, passes, since>>

equivVars == <<pc, Q0, yielded>>

convVars == <<conv_in, conv_out>>

winVars == <<windows, sdl_windows>>

consVars == <<arrivals, received, begun>>

(***************************************************************************)
(* The engine's queue primitive: SDL_PollEvent removes and returns the     *)
(* oldest pending record, or returns false when none is pending.           *)
(***************************************************************************)
SDL_PollEvent(q) ==
    IF q = <<>> THEN [ret |-> FALSE, queue |-> q]
    ELSE [ret |-> TRUE, sdl_event |-> Head(q), queue |-> Tail(q)]

(***************************************************************************)
(* event_range::event_range(): the drain loop.  Returns the queue and the  *)
(* vector after the loop.                                                  *)
(***************************************************************************)
RECURSIVE event_range_ctor(_, _)
event_range_ctor(q, m_events) ==
    LET p == SDL_PollEvent(q)
    IN  IF ~p.ret THEN [queue |-> p.queue, m_events |-> m_events]
        ELSE LET r == from_sdl_event(p.sdl_event)
             IN  IF r.threw THEN event_range_ctor(p.queue, m_events)
                 ELSE event_range_ctor(p.queue, Append(m_events, r.value))

\* A loop iteration that ends the loop on an unsupported record.
event_range_ctor_step_break(q, m_events) ==
    LET p == SDL_PollEvent(q)
    IN  IF ~p.ret THEN [queue |-> p.queue, m_events |-> m_events, done |-> TRUE]
        ELSE LET r == from_sdl_event(p.sdl_event)
             IN  IF r.threw THEN [queue |-> p.queue, m_events |-> m_events, done |-> TRUE]
                 ELSE [queue |-> p.queue, m_events |-> Append(m_events, r.value),
                       done |-> FALSE]

\* One iteration of the loop of the event_range constructor: one
\* SDL_PollEvent call and the conversion of what it returned; done says
\* that the loop ended.
event_range_ctor_step(q, m_events) ==
    LET p == SDL_PollEvent(q)
    IN  IF ~p.ret THEN [queue |-> p.queue, m_events |-> m_events, done |-> TRUE]
        ELSE LET r == from_sdl_event(p.sdl_event)
             IN  IF r.threw THEN [queue |-> p.queue, m_events |-> m_events, done |-> FALSE]
                 ELSE [queue |-> p.queue, m_events |-> Append(m_events, r.value),
                       done |-> FALSE]

\* event_range's inline readers.
range_begin(m_events) == 0

range_end(m_events) == Len(m_events)

range_empty(m_events) == Len(m_events) = 0

range_size(m_events) == Len(m_events)

\* operator[](size_t index): m_events[index], index counted from 0.
range_index(m_events, index) == m_events[index + 1]

\* for (const auto& e : range): from begin() to end(), one element a step.
RECURSIVE RangeFor(_, _, _)
RangeFor(m_events, it, seen) ==
    IF it = range_end(m_events) THEN seen
    ELSE RangeFor(m_events, it + 1, Append(seen, m_events[it + 1]))

(***************************************************************************)
(* event_view::iterator.                                                   *)
(***************************************************************************)
\* m_current_event{} is the variant's first alternative, value-initialised.
DefaultEvent == [alt |-> "quit_event", timestamp |-> 0]

\* iterator() noexcept : m_current_event{}, m_has_event{false}
DefaultIter == [m_current_event |-> DefaultEvent, m_has_event |-> FALSE]

\* An iterator variable that holds no object yet.
NoIter == [absent |-> TRUE]

RECURSIVE fetch_next_break(_, _)
fetch_next_break(q, it) ==
    LET p == SDL_PollEvent(q)
    IN  IF ~p.ret THEN [queue |-> p.queue, it |-> [it EXCEPT !.m_has_event = FALSE]]
        ELSE LET r == from_sdl_event(p.sdl_event)
             IN  IF r.threw
                 THEN [queue |-> p.queue, it |-> [it EXCEPT !.m_has_event = FALSE]]
                 ELSE [queue |-> p.queue,
                       it |-> [m_current_event |-> r.value, m_has_event |-> TRUE]]

\* void fetch_next(): returns the queue and the iterator after the call.
RECURSIVE fetch_next(_, _)
fetch_next(q, it) ==
    LET p == SDL_PollEvent(q)
    IN  IF ~p.ret THEN [queue |-> p.queue, it |-> [it EXCEPT !.m_has_event = FALSE]]
        ELSE LET r == from_sdl_event(p.sdl_event)
             IN  IF r.threw THEN fetch_next(p.queue, it)
                 ELSE [queue |-> p.queue,
                       it |-> [m_current_event |-> r.value, m_has_event |-> TRUE]]

\* The number of SDL_PollEvent calls one fetch_next() makes on the queue q.
RECURSIVE fetch_next_polls(_)
fetch_next_polls(q) ==
    LET p == SDL_PollEvent(q)
    IN  IF ~p.ret THEN 1
        ELSE IF from_sdl_event(p.sdl_event).threw THEN 1 + fetch_next_polls(p.queue)
        ELSE 1

\* An iteration that looks at the oldest record and leaves it pending when
\* it is convertible.
fetch_next_step_peek(q, it) ==
    LET p == SDL_PollEvent(q)
    IN  IF ~p.ret
        THEN [queue |-> p.queue, it |-> [it EXCEPT !.m_has_event = FALSE], done |-> TRUE]
        ELSE LET r == from_sdl_event(p.sdl_event)
             IN  IF r.threw THEN [queue |-> p.queue, it |-> it, done |-> FALSE]
                 ELSE [queue |-> q,
                       it |-> [m_current_event |-> r.value, m_has_event |-> TRUE],
                       done |-> TRUE]

\* An iteration that gives up on an unsupported record.
fetch_next_step_break(q, it) ==
    LET p == SDL_PollEvent(q)
    IN  IF ~p.ret
        THEN [queue |-> p.queue, it |-> [it EXCEPT !.m_has_event = FALSE], done |-> TRUE]
        ELSE LET r == from_sdl_event(p.sdl_event)
             IN  IF r.threw
                 THEN [queue |-> p.queue, it |-> [it EXCEPT !.m_has_event = FALSE],
                       done |-> TRUE]
                 ELSE [queue |-> p.queue,
                       it |-> [m_current_event |-> r.value, m_has_event |-> TRUE],
                       done |-> TRUE]

\* An iteration that also resets the slot when the queue has run out.
fetch_next_step_reset(q, it) ==
    LET p == SDL_PollEvent(q)
    IN  IF ~p.ret THEN [queue |-> p.queue, it |-> DefaultIter, done |-> TRUE]
        ELSE LET r == from_sdl_event(p.sdl_event)
             IN  IF r.threw THEN [queue |-> p.queue, it |-> it, done |-> FALSE]
                 ELSE [queue |-> p.queue,
                       it |-> [m_current_event |-> r.value, m_has_event |-> TRUE],
                       done |-> TRUE]

\* One iteration of the loop of fetch_next(): one SDL_PollEvent call and
\* the conversion of what it returned; done says that the call returned.
fetch_next_step(q, it) ==
    LET p == SDL_PollEvent(q)
    IN  IF ~p.ret
        THEN [queue |-> p.queue, it |-> [it EXCEPT !.m_has_event = FALSE], done |-> TRUE]
        ELSE LET r == from_sdl_event(p.sdl_event)
             IN  IF r.threw THEN [queue |-> p.queue, it |-> it, done |-> FALSE]
                 ELSE [queue |-> p.queue,
                       it |-> [m_current_event |-> r.value, m_has_event |-> TRUE],
                       done |-> TRUE]

\* explicit iterator(bool fetch_first)
iterator_ctor(q, fetch_first) ==
    IF fetch_first THEN fetch_next(q, DefaultIter) ELSE [queue |-> q, it |-> DefaultIter]

\* event_view::begin(): iterator{true};  event_view::end(): iterator{}
view_begin(q) == iterator_ctor(q, TRUE)

view_end == DefaultIter

\* operator*
iter_deref(it) == it.m_current_event

iter_eq_deep(a, b) ==
    a.m_has_event = b.m_has_event /\ a.m_current_event = b.m_current_event

\* operator== and operator!=
iter_eq(a, b) == a.m_has_event = b.m_has_event

iter_ne(a, b) == ~iter_eq(a, b)

(***************************************************************************)
(* Initial values.                                                         *)
(***************************************************************************)
NoRange == [constructed |-> FALSE, m_events |-> <<>>]

NoSince == [built |-> <<>>, arrived |-> <<>>]

InitQueueSide ==
    /\ queue = <<>>
    /\ range = NoRange
    /\ other_range = NoRange
    /\ iter = [c \in IterIds |-> NoIter]
    /\ last = [op |-> "none"]
    /\ passes = <<>>
    /\ since = NoSince

InitEquivIdle ==
    /\ pc = "idle"
    /\ Q0 = <<>>
    /\ yielded = <<>>

InitConvIdle ==
    /\ conv_in = <<>>
    /\ conv_out = <<>>

\* No window object exists and no consumer history is kept.
InitOthersIdle ==
    /\ windows = <<>>
    /\ sdl_windows = <<>>
    /\ arrivals = <<>>
    /\ received = <<>>
    /\ begun = <<>>

(***************************************************************************)
(* The engine delivers a record (the producer side of the queue).  The     *)
(* engine pumps its event sources inside SDL_PollEvent and SDL_WaitEvent,  *)
(* so a record can arrive between two engine calls of one library call;    *)
(* the history of a call in progress keeps the records that arrived        *)
(* during it, and a call has at most MaxQueue records before it.  A        *)
(* process that has ended receives nothing.                                *)
(***************************************************************************)
Push(r) ==
    /\ pc # "crashed"
    /\ Len(queue) < MaxQueue
    /\ IF pc = "idle" THEN TRUE
       ELSE Len(last.pre_queue) + Len(last.during) < MaxQueue
    /\ queue' = Append(queue, r)
    /\ last' = IF pc = "idle" THEN [op |-> "push"]
               ELSE [last EXCEPT !.during = Append(@, r)]
    /\ since' = IF range.constructed /\ pc = "idle"
                THEN [since EXCEPT !.arrived = Append(@, r)] ELSE since
    /\ UNCHANGED <<winVars, consVars, range, other_range, iter, passes, equivVars, convVars>>

(***************************************************************************)
(* event_range: construction, assignment, destruction and the readers.     *)
(* The application is one thread: pc names the library call in progress    *)
(* and is "idle" between calls.  A step of a call that loops is one        *)
(* iteration of its loop, that is one engine call and the conversion of    *)
(* what it returned.                                                       *)
(***************************************************************************)
\* What a call that makes no engine call leaves in the history: its name,
\* what it returned or made, and the queue and the vector of the range it
\* was called on.
ReadRecord(op, ret) ==
    [op |-> op, ret |-> ret, pre_queue |-> queue, pre_events |-> range.m_events]

\* event_range range; (the call is entered, or its loop goes round again)
NewRange ==
    /\ ~range.constructed
    /\ pc \in {"idle", "event_range"}
    /\ IF pc = "idle" THEN TRUE ELSE last.target = "range"
    /\ LET res == event_range_ctor_step(queue, range.m_events)
       IN  /\ range' = [constructed |-> res.done, m_events |-> res.m_events]
           /\ queue' = res.queue
           /\ pc' = IF res.done THEN "idle" ELSE "event_range"
           /\ since' = IF res.done THEN [built |-> res.m_events, arrived |-> <<>>]
                       ELSE since
           /\ last' = IF pc = "idle"
                      THEN [op |-> "event_range", target |-> "range", pre_queue |-> queue,
                            during |-> <<>>, done |-> res.done]
                      ELSE [last EXCEPT !.done = res.done]
    /\ passes' = <<>>
    /\ UNCHANGED <<winVars, consVars, other_range, iter, Q0, yielded, convVars>>

\* event_range other; a second range, built by the same constructor while
\* the first may be alive: it takes every pending record.
NewOther ==
    /\ ~other_range.constructed
    /\ pc \in {"idle", "event_range"}
    /\ IF pc = "idle" THEN TRUE ELSE last.target = "other"
    /\ LET res == event_range_ctor_step(queue, other_range.m_events)
       IN  /\ other_range' = [constructed |-> res.done, m_events |-> res.m_events]
           /\ queue' = res.queue
           /\ pc' = IF res.done THEN "idle" ELSE "event_range"
           /\ since' = IF res.done THEN [since EXCEPT !.arrived = <<>>] ELSE since
           /\ last' = IF pc = "idle"
                      THEN [op |-> "event_range", target |-> "other", pre_queue |-> queue,
                            during |-> <<>>, done |-> res.done]
                      ELSE [last EXCEPT !.done = res.done]
    /\ UNCHANGED <<winVars, consVars, range, iter, passes, Q0, yielded, convVars>>

\* range = event_range{}; the temporary is built by the constructor's loop
\* and the implicit move assignment then replaces the vector of the range.
AssignRange ==
    /\ range.constructed
    /\ pc \in {"idle", "operator="}
    /\ LET tmp == IF pc = "idle" THEN <<>> ELSE last.m_events
           res == event_range_ctor_step(queue, tmp)
       IN  /\ range' = IF res.done THEN [range EXCEPT !.m_events = res.m_events] ELSE range
           /\ queue' = res.queue
           /\ pc' = IF res.done THEN "idle" ELSE "operator="
           /\ since' = IF res.done THEN [built |-> res.m_events, arrived |-> <<>>]
                       ELSE NoSince
           /\ passes' = <<>>
           /\ last' = IF pc = "idle"
                      THEN [op |-> "operator=", pre_queue |-> queue, during |-> <<>>,
                            m_events |-> res.m_events, done |-> res.done]
                      ELSE [last EXCEPT !.m_events = res.m_events, !.done = res.done]
    /\ UNCHANGED <<winVars, consVars, other_range, iter, Q0, yielded, convVars>>

\* event_range other = range; the implicit copy constructor copies the
\* vector.
CopyRange ==
    /\ range.constructed
    /\ ~other_range.constructed
    /\ pc = "idle"
    /\ other_range' = [constructed |-> TRUE, m_events |-> range.m_events]
    /\ last' = ReadRecord("copy", other_range')
    /\ UNCHANGED <<winVars, consVars, queue, range, iter, passes, since, equivVars, convVars>>

\* event_range other = std::move(range); the implicit move constructor
\* takes the vector and leaves the range empty.
MoveFromRange ==
    /\ range.constructed
    /\ ~other_range.constructed
    /\ pc = "idle"
    /\ other_range' = [constructed |-> TRUE, m_events |-> range.m_events]
    /\ range' = [range EXCEPT !.m_events = <<>>]
    /\ since' = [since EXCEPT !.built = <<>>]
    /\ passes' = <<>>
    /\ last' = ReadRecord("move", other_range')
    /\ UNCHANGED <<winVars, consVars, queue, iter, equivVars, convVars>>

\* range = other; or range = std::move(other); the implicit assignment
\* operators replace the vector of the range by that of other with no
\* engine call, and the move leaves other empty.
AssignFromOther(moved) ==
    /\ range.constructed
    /\ other_range.constructed
    /\ pc = "idle"
    /\ range' = [range EXCEPT !.m_events = other_range.m_events]
    /\ other_range' = IF moved THEN [other_range EXCEPT !.m_events = <<>>] ELSE other_range
    /\ since' = [since EXCEPT !.built = other_range.m_events]
    /\ passes' = <<>>
    /\ last' = ReadRecord(IF moved THEN "move_assign" ELSE "copy_assign", range')
    /\ UNCHANGED <<winVars, consVars, queue, iter, equivVars, convVars>>

DestroyRange ==
    /\ range.constructed
    /\ pc = "idle"
    /\ range' = NoRange
    /\ since' = NoSince
    /\ passes' = <<>>
    /\ last' = [op |-> "~event_range"]
    /\ UNCHANGED <<winVars, consVars, queue, other_range, iter, equivVars, convVars>>

\* other goes out of scope.
DestroyOther ==
    /\ other_range.constructed
    /\ pc = "idle"
    /\ other_range' = NoRange
    /\ last' = [op |-> "~event_range"]
    /\ UNCHANGED <<winVars, consVars, queue, range, iter, passes, since, equivVars, convVars>>

\* A begin() that polls the queue again before returning.
RangeBeginPolls ==
    /\ range.constructed
    /\ pc = "idle"
    /\ LET res == event_range_ctor(queue, range.m_events)
       IN  /\ range' = [range EXCEPT !.m_events = res.m_events]
           /\ queue' = res.queue
    /\ last' = ReadRecord("range.begin", range_begin(range.m_events))
    /\ UNCHANGED <<winVars, consVars, other_range, iter, passes, since, equivVars, convVars>>

RangeBegin ==
    /\ range.constructed
    /\ pc = "idle"
    /\ last' = ReadRecord("range.begin", range_begin(range.m_events))
    /\ UNCHANGED <<winVars, consVars, queue, range, other_range, iter, passes, since, equivVars, convVars>>

RangeEnd ==
    /\ range.constructed
    /\ pc = "idle"
    /\ last' = ReadRecord("range.end", range_end(range.m_events))
    /\ UNCHANGED <<winVars, consVars, queue, range, other_range, iter, passes, since, equivVars, convVars>>

RangeEmpty ==
    /\ range.constructed
    /\ pc = "idle"
    /\ last' = ReadRecord("empty", range_empty(range.m_events))
    /\ UNCHANGED <<winVars, consVars, queue, range, other_range, iter, passes, since, equivVars, convVars>>

RangeSize ==
    /\ range.constructed
    /\ pc = "idle"
    /\ last' = ReadRecord("size", range_size(range.m_events))
    /\ UNCHANGED <<winVars, consVars, queue, range, other_range, iter, passes, since, equivVars, convVars>>

\* A record the converter supports.
Convertible(r) == ~from_sdl_event(r).threw

\* What a read through a reference past the stored events can do: return,
\* or end the process (a read through the null data() of an empty vector,
\* or the abort of an operator[] built with its bounds assertion).  The
\* value a returning read gives is not constrained: the bytes found there
\* read as an event of any alternative with any field values (the all-zero
\* one, a stale element the storage still holds, the allocator's
\* bookkeeping or other heap contents) or as no event at all, so the model
\* keeps no value for it.
Indeterminate == {"returns", "terminated"}

\* range[index]: m_events[index] carries no bounds check; with index at or
\* past size() the behaviour is undefined: the reference returned lies past
\* the stored events and reading through it returns an unconstrained value
\* or ends the process, after which nothing runs.  The history of a read
\* past the end keeps which of the two happened.
RangeIndex(index, outcome) ==
    /\ range.constructed
    /\ pc = "idle"
    /\ LET in_range == index < range_size(range.m_events)
       IN  /\ last' = IF in_range
                      THEN [op |-> "operator[]", in_range |-> TRUE, index |-> index,
                            ret |-> range_index(range.m_events, index),
                            pre_queue |-> queue, pre_events |-> range.m_events]
                      ELSE [op |-> "operator[]", in_range |-> FALSE, outcome |-> outcome,
                            pre_queue |-> queue, pre_events |-> range.m_events]
           /\ pc' = IF ~in_range /\ outcome = "terminated" THEN "crashed" ELSE pc
    /\ UNCHANGED <<winVars, consVars, queue, range, other_range, iter, passes, since, Q0,
                   yielded, convVars>>

\* The history keeps what the last two passes saw.
Remember(ps, seen) == IF Len(ps) < 2 THEN Append(ps, seen) ELSE <<ps[2], seen>>

\* What a pass leaves in the history: a reader's record, and whether the
\* engine pushed a convertible record just before the pass.
PassRecord(seen) ==
    [op |-> "pass", ret |-> seen, pre_queue |-> queue, pre_events |-> range.m_events,
     after_push |-> last.op = "push" /\ Convertible(queue[Len(queue)])]

\* A pass whose begin() polls the queue again.
RangePassPolls ==
    /\ range.constructed
    /\ pc = "idle"
    /\ LET res == event_range_ctor(queue, range.m_events)
           seen == RangeFor(res.m_events, range_begin(res.m_events), <<>>)
       IN  /\ range' = [range EXCEPT !.m_events = res.m_events]
           /\ queue' = res.queue
           /\ passes' = Remember(passes, seen)
           /\ last' = PassRecord(seen)
    /\ UNCHANGED <<winVars, consVars, other_range, iter, since, equivVars, convVars>>

\* One full iteration pass: for (const auto& e : range).
RangePass ==
    /\ range.constructed
    /\ pc = "idle"
    /\ LET seen == RangeFor(range.m_events, range_begin(range.m_events), <<>>)
       IN  /\ passes' = Remember(passes, seen)
           /\ last' = PassRecord(seen)
    /\ UNCHANGED <<winVars, consVars, queue, range, other_range, iter, since, equivVars, convVars>>

InitRange == InitQueueSide /\ InitEquivIdle /\ InitConvIdle /\ InitOthersIdle

NextRange ==
    \/ \E r \in QueueSamples : Push(r)
    \/ NewRange
    \/ NewOther
    \/ AssignRange
    \/ CopyRange
    \/ MoveFromRange
    \/ \E moved \in BOOLEAN : AssignFromOther(moved)
    \/ DestroyRange
    \/ DestroyOther
    \/ RangeBegin
    \/ RangeEnd
    \/ RangeEmpty
    \/ RangeSize
    \/ \E index \in 0..(MaxQueue + 1) :
          \E outcome \in IF index < range_size(range.m_events) THEN {"returns"}
                          ELSE Indeterminate : RangeIndex(index, outcome)
    \/ RangePass

SpecRange == InitRange /\ [][NextRange]_vars

(***************************************************************************)
(* Properties of event_range, checked under SpecRange.                     *)
(***************************************************************************)

\* The conversions of the convertible records of Q, in the order of Q.
ConversionsOf(Q) ==
    LET C == SelectSeq(Q, Convertible)
    IN  [k \in 1..Len(C) |-> from_sdl_event(C[k]).value]

ConvertibleCount(Q) == Cardinality({k \in 1..Len(Q) : Convertible(Q[k])})

\* The records a library call has had before it: those pending when it was
\* entered, then those the engine delivered while it was in progress.
Seen == last.pre_queue \o last.during

\* The records of Seen that the call has taken from the queue so far.
Consumed == SubSeq(Seen, 1, Len(Seen) - Len(queue))

LoopOps == {"event_range", "operator=", "poll_events_range", "begin", "++it", "it++",
            "wait_event", "wait_event_timeout", "flush_events"}

\* A call in progress takes the records in their order of arrival: what is
\* pending is what it has not yet taken.
TakesInOrder ==
    last.op \in LoopOps =>
        /\ Len(queue) <= Len(Seen)
        /\ queue = SubSeq(Seen, Len(Seen) - Len(queue) + 1, Len(Seen))

\* The range an event_range constructor call is building, or has built.
Target == IF last.target = "other" THEN other_range ELSE range

\* The vector an event_range constructor call is building, or has built.
Built == IF last.op = "event_range" THEN Target.m_events ELSE last.m_events

\* The range a finished constructor call or assignment has written.
Written == IF last.op = "event_range" THEN Target ELSE range

\* C1: constructing an event_range yields exactly the conversions of the
\* convertible records of Q, in arrival order, one element per convertible
\* record, where Q is the records the queue holds for the constructor: those
\* pending on entry followed by those delivered while its loop runs; the
\* queue is left empty and size() is the number of convertible records of
\* Q.  While the loop runs the vector holds the conversions of the records
\* taken so far.
C1_RangeDrainsInOrder ==
    /\ TakesInOrder
    /\ last.op \in {"event_range", "operator="} =>
          /\ Built = ConversionsOf(Consumed)
          /\ last.done =>
                /\ Written.constructed
                /\ Written.m_events = ConversionsOf(Seen)
                /\ queue = <<>>
                /\ range_size(Written.m_events) = ConvertibleCount(Seen)

\* A range was just built from a queue that held two equal mouse-motion
\* records side by side and an unsupported record, with nothing delivered
\* during the construction; it holds two elements.
C1_Witness ==
    /\ last.op = "event_range"
    /\ last.target = "range"
    /\ last.done
    /\ last.during = <<>>
    /\ \E k \in 1..(Len(last.pre_queue) - 1) :
          /\ last.pre_queue[k].type = SDL_EVENT_MOUSE_MOTION
          /\ last.pre_queue[k + 1] = last.pre_queue[k]
    /\ \E j \in 1..Len(last.pre_queue) : ~Convertible(last.pre_queue[j])
    /\ Len(range.m_events) = 2

LastPass == passes[Len(passes)]

\* C4: two successive full iteration passes over an event_range see the
\* same sequence, and size(), empty(), operator[] at an index below size(),
\* begin() and end() agree with what the passes saw, whatever the engine
\* pushed in between.
C4_PassesAgree ==
    /\ Len(passes) = 2 =>
          /\ Len(passes[1]) = Len(passes[2])
          /\ \A k \in 1..Len(passes[1]) : passes[1][k] = passes[2][k]
    /\ (passes # <<>> /\ last.op = "size") => last.ret = Len(LastPass)
    /\ (passes # <<>> /\ last.op = "empty") => last.ret = (Len(LastPass) = 0)
    /\ (passes # <<>> /\ last.op = "operator[]" /\ last.in_range) =>
          /\ last.index < Len(LastPass)
          /\ last.ret = LastPass[last.index + 1]
    /\ (passes # <<>> /\ last.op = "range.begin") => last.ret = 0
    /\ (passes # <<>> /\ last.op = "range.end") => last.ret = Len(LastPass)

\* Two passes over a non-empty range, with a convertible record pushed
\* between the first and the second.
C4_Witness ==
    /\ Len(passes) = 2
    /\ passes[1] # <<>>
    /\ last.op = "pass"
    /\ last.after_push

ReaderOps == {"range.begin", "range.end", "empty", "size", "operator[]", "pass"}

CopyMoveOps == {"copy", "move", "copy_assign", "move_assign"}

\* C5: begin(), end(), empty(), size() and operator[], at any index and
\* whether it returns or ends the process, leave the queue and the stored
\* sequence as they found them; the copies, moves and assignments between
\* two ranges leave the queue as they found it; between calls the sequence
\* is the one the last constructor call, copy, move or assignment on the
\* range left in it and every record pushed since the last constructor
\* call is still pending in the queue.
C5_ReadersTouchNothing ==
    /\ last.op \in ReaderOps =>
          /\ queue = last.pre_queue
          /\ range.m_events = last.pre_events
    /\ last.op \in CopyMoveOps => queue = last.pre_queue
    /\ (range.constructed /\ pc \in {"idle", "crashed"}) =>
          /\ range.m_events = since.built
          /\ queue = since.arrived

\* A reader ran on a non-empty range after a convertible record arrived.
C5_Witness ==
    /\ range.constructed
    /\ last.op = "range.begin"
    /\ since.built # <<>>
    /\ \E k \in 1..Len(since.arrived) : Convertible(since.arrived[k])

(***************************************************************************)
(* event_view::iterator: begin(), end(), copy, ++it and it++.              *)
(***************************************************************************)
\* auto c = view.begin(); the iterator is constructed in place with no
\* event and fetch_next() runs on it.
ViewBegin(c) ==
    /\ \/ pc = "idle"
       \/ pc = "fetch_next" /\ last.op = "begin" /\ last.id = c
    /\ LET it == IF pc = "idle" THEN DefaultIter ELSE iter[c]
           res == fetch_next_step(queue, it)
       IN  /\ iter' = [iter EXCEPT ![c] = res.it]
           /\ queue' = res.queue
           /\ pc' = IF res.done THEN "idle" ELSE "fetch_next"
           /\ last' = IF pc = "idle"
                      THEN [op |-> "begin", id |-> c, pre_queue |-> queue, during |-> <<>>,
                            pre_it |-> DefaultIter, done |-> res.done]
                      ELSE [last EXCEPT !.done = res.done]
    /\ UNCHANGED <<winVars, consVars, rangeVars, Q0, yielded, convVars>>

\* auto c = view.end()
ViewEnd(c) ==
    /\ pc = "idle"
    /\ iter' = [iter EXCEPT ![c] = view_end]
    /\ last' = [op |-> "end", id |-> c, pre_queue |-> queue]
    /\ UNCHANGED <<winVars, consVars, queue, rangeVars, equivVars, convVars>>

\* auto d = c (the implicit copy constructor)
IterCopy(c, d) ==
    /\ pc = "idle"
    /\ c # d
    /\ iter[c] # NoIter
    /\ iter' = [iter EXCEPT ![d] = iter[c]]
    /\ last' = [op |-> "copy", id |-> d, from |-> c]
    /\ UNCHANGED <<winVars, consVars, queue, rangeVars, equivVars, convVars>>

\* A ++c that leaves a terminal cursor alone.
PreInc_absorbing(c) ==
    /\ iter[c] # NoIter
    /\ \/ pc = "idle"
       \/ pc = "fetch_next" /\ last.op = "++it" /\ last.id = c
    /\ LET res == IF pc = "idle" /\ ~iter[c].m_has_event
                  THEN [queue |-> queue, it |-> iter[c], done |-> TRUE]
                  ELSE fetch_next_step(queue, iter[c])
       IN  /\ iter' = [iter EXCEPT ![c] = res.it]
           /\ queue' = res.queue
           /\ pc' = IF res.done THEN "idle" ELSE "fetch_next"
           /\ last' = IF pc = "idle"
                      THEN [op |-> "++it", id |-> c, pre_queue |-> queue, during |-> <<>>,
                            pre_it |-> iter[c], done |-> res.done]
                      ELSE [last EXCEPT !.done = res.done]
    /\ UNCHANGED <<winVars, consVars, rangeVars, Q0, yielded, convVars>>

\* ++c (the call is entered, or the loop of its fetch_next() goes round)
PreInc(c) ==
    /\ iter[c] # NoIter
    /\ \/ pc = "idle"
       \/ pc = "fetch_next" /\ last.op = "++it" /\ last.id = c
    /\ LET res == fetch_next_step(queue, iter[c])
       IN  /\ iter' = [iter EXCEPT ![c] = res.it]
           /\ queue' = res.queue
           /\ pc' = IF res.done THEN "idle" ELSE "fetch_next"
           /\ last' = IF pc = "idle"
                      THEN [op |-> "++it", id |-> c, pre_queue |-> queue, during |-> <<>>,
                            pre_it |-> iter[c], done |-> res.done]
                      ELSE [last EXCEPT !.done = res.done]
    /\ UNCHANGED <<winVars, consVars, rangeVars, Q0, yielded, convVars>>

\* d = c++: the copy tmp of c is taken on entry, fetch_next() runs on c and
\* tmp is returned into d.
PostInc(c, d) ==
    /\ c # d
    /\ iter[c] # NoIter
    /\ \/ pc = "idle"
       \/ pc = "fetch_next" /\ last.op = "it++" /\ last.id = c /\ last.into = d
    /\ LET tmp == IF pc = "idle" THEN iter[c] ELSE last.pre_it
           res == fetch_next_step(queue, iter[c])
       IN  /\ iter' = IF res.done THEN [iter EXCEPT ![c] = res.it, ![d] = tmp]
                      ELSE [iter EXCEPT ![c] = res.it]
           /\ queue' = res.queue
           /\ pc' = IF res.done THEN "idle" ELSE "fetch_next"
           /\ last' = IF pc = "idle"
                      THEN [op |-> "it++", id |-> c, into |-> d, pre_queue |-> queue,
                            during |-> <<>>, pre_it |-> tmp, done |-> res.done]
                      ELSE [last EXCEPT !.done = res.done]
    /\ UNCHANGED <<winVars, consVars, rangeVars, Q0, yielded, convVars>>

InitView == InitQueueSide /\ InitEquivIdle /\ InitConvIdle /\ InitOthersIdle

NextView ==
    \/ \E r \in QueueSamples : Push(r)
    \/ \E c \in IterIds : ViewBegin(c)
    \/ \E c \in IterIds : ViewEnd(c)
    \/ \E c, d \in IterIds : IterCopy(c, d)
    \/ \E c \in IterIds : PreInc(c)
    \/ \E c, d \in IterIds : PostInc(c, d)

SpecView == InitView /\ [][NextView]_vars

(***************************************************************************)
(* Properties of the lazy cursor, checked under SpecView.                  *)
(***************************************************************************)
\* Index in Q of the first convertible record, 0 when there is none.
FirstConvertible(Q) ==
    IF \E k \in 1..Len(Q) : Convertible(Q[k])
    THEN CHOOSE k \in 1..Len(Q) :
            /\ Convertible(Q[k])
            /\ \A j \in 1..(k - 1) : ~Convertible(Q[j])
    ELSE 0

AdvanceOps == {"begin", "++it", "it++"}

\* C3: an advance (begin(), ++it, it++) removes records from the front of
\* the queue one at a time, discarding unsupported ones and leaving the
\* cursor as it was until it stops; it stops either on the first
\* convertible record it had before it (has-event true, current event its
\* conversion, the records after it left in place) or with has-event false
\* and the queue empty; end() pulls nothing.
C3_AdvanceStopsAtFirstConvertible ==
    /\ (last.op \in AdvanceOps /\ ~last.done) =>
          /\ TakesInOrder
          /\ \A k \in 1..Len(Consumed) : ~Convertible(Consumed[k])
          /\ iter[last.id] = last.pre_it
    /\ (last.op \in AdvanceOps /\ last.done) =>
          LET Q == Seen
              k == FirstConvertible(Q)
              it == iter[last.id]
          IN  IF k > 0
              THEN /\ it.m_has_event
                   /\ it.m_current_event = from_sdl_event(Q[k]).value
                   /\ queue = SubSeq(Q, k + 1, Len(Q))
              ELSE /\ ~it.m_has_event
                   /\ queue = <<>>
    /\ last.op = "end" =>
          /\ queue = last.pre_queue
          /\ ~iter[last.id].m_has_event

\* An advance skipped an unsupported record, stopped on a convertible one
\* and left a record behind it in the queue.
C3_Witness ==
    /\ last.op = "++it"
    /\ last.done
    /\ Len(last.pre_queue) = 3
    /\ ~Convertible(last.pre_queue[1])
    /\ Convertible(last.pre_queue[2])
    /\ iter[last.id].m_has_event
    /\ queue = <<last.pre_queue[3]>>

Live == {c \in IterIds : iter[c] # NoIter}

\* C6: two cursors compare equal exactly when their has-event flags are
\* equal, whatever events they hold; so end() == end(), a copy equals the
\* original, and begin() == end() when nothing convertible was pending.
C6_EqualityIsFlagEquality ==
    /\ \A c, d \in Live :
          /\ iter_eq(iter[c], iter[d]) <=> (iter[c].m_has_event = iter[d].m_has_event)
          /\ iter_ne(iter[c], iter[d]) <=> (iter[c].m_has_event # iter[d].m_has_event)
    /\ iter_eq(view_end, view_end)
    /\ last.op = "copy" => iter_eq(iter[last.id], iter[last.from])
    /\ (last.op = "begin" /\ last.done /\ FirstConvertible(Seen) = 0) =>
          iter_eq(iter[last.id], view_end)

\* Two cursors stand on different events and compare equal.
C6_Witness ==
    /\ Live = IterIds
    /\ iter[1].m_has_event
    /\ iter[2].m_has_event
    /\ iter[1].m_current_event # iter[2].m_current_event
    /\ iter_eq(iter[1], iter[2])

\* C7 as stated: after any ++it of a cursor that held an event, the slot no
\* longer holds the event it held before the advance.
C7_SlotAlwaysOverwritten ==
    (last.op \in {"++it", "it++"} /\ last.done /\ last.pre_it.m_has_event) =>
        iter_deref(iter[last.id]) # iter_deref(last.pre_it)

\* C7 amended: an advance that finds a convertible record puts that record's
\* conversion in the slot; the advance that reaches the terminal state
\* leaves the slot holding the old event.
C7_SlotAfterAdvance ==
    (last.op \in {"++it", "it++"} /\ last.done /\ last.pre_it.m_has_event) =>
        LET Q == Seen
            k == FirstConvertible(Q)
        IN  iter_deref(iter[last.id]) =
                IF k > 0 THEN from_sdl_event(Q[k]).value ELSE iter_deref(last.pre_it)

\* A cursor that held an event advanced into the terminal state over
\* unsupported records only.
C7_Witness ==
    /\ last.op = "++it"
    /\ last.done
    /\ last.pre_it.m_has_event
    /\ last.pre_queue # <<>>
    /\ ~iter[last.id].m_has_event
    /\ iter_deref(iter[last.id]) # DefaultEvent

\* C27: the terminal state is not absorbing: an advance of a cursor whose
\* has-event flag is false (an end() cursor included) polls again and, when
\* a convertible record is pending, leaves the cursor non-terminal on that
\* record's conversion; a cursor that is terminal after an advance still
\* holds the event it held before it, and a begin() or end() cursor that
\* never held one holds the default quit event with timestamp 0.
C27_TerminalIsNotAbsorbing ==
    /\ (last.op \in {"++it", "it++"} /\ last.done /\ ~last.pre_it.m_has_event) =>
          LET Q == Seen
              k == FirstConvertible(Q)
          IN  /\ k > 0 =>
                    /\ iter[last.id].m_has_event
                    /\ iter_deref(iter[last.id]) = from_sdl_event(Q[k]).value
                    /\ Len(queue) < Len(Q)
              /\ k = 0 => queue = <<>>
    /\ (last.op \in AdvanceOps /\ ~iter[last.id].m_has_event) =>
          iter_deref(iter[last.id]) = iter_deref(last.pre_it)
    /\ last.op = "end" => iter_deref(iter[last.id]) = [alt |-> "quit_event", timestamp |-> 0]
    /\ (last.op = "begin" /\ ~iter[last.id].m_has_event) =>
          iter_deref(iter[last.id]) = [alt |-> "quit_event", timestamp |-> 0]

\* A cursor that had reached the terminal state after holding an event was
\* advanced when a convertible record had arrived, and stands on it.
C27_Witness ==
    /\ last.op = "++it"
    /\ last.done
    /\ ~last.pre_it.m_has_event
    /\ iter_deref(last.pre_it) # DefaultEvent
    /\ FirstConvertible(last.pre_queue) > 0
    /\ iter[last.id].m_has_event
    /\ iter_deref(iter[last.id]) # iter_deref(last.pre_it)

(***************************************************************************)
(* The comparison run: one for-loop over an event_view on the queue Q0,    *)
(* then the engine holds the same records Q0 again and an event_range is   *)
(* constructed from them.                                                  *)
(***************************************************************************)
BoundedSeqs(S, n) == UNION {[1..k -> S] : k \in 0..n}

InitEquiv ==
    /\ queue \in BoundedSeqs(QueueSamples, MaxQueue)
    /\ Q0 = queue
    /\ pc = "start"
    /\ yielded = <<>>
    /\ range = NoRange
    /\ other_range = NoRange
    /\ iter = [c \in IterIds |-> NoIter]
    /\ last = [op |-> "none"]
    /\ passes = <<>>
    /\ since = NoSince
    /\ InitConvIdle
    /\ InitOthersIdle

\* for (auto it = view.begin(); ...
LoopBegin ==
    /\ pc = "start"
    /\ LET res == view_begin(queue)
       IN  /\ iter' = [iter EXCEPT ![1] = res.it]
           /\ queue' = res.queue
    /\ pc' = "loop"
    /\ last' = [op |-> "for", polls |-> fetch_next_polls(queue)]
    /\ UNCHANGED <<winVars, consVars, rangeVars, Q0, yielded, convVars>>

\* ... it != view.end(); ++it) { use(*it); }
\* A pass over n records yields at most n events: the guard on yielded only
\* keeps the history finite.
LoopBody ==
    /\ pc = "loop"
    /\ iter_ne(iter[1], view_end)
    /\ Len(yielded) <= MaxQueue
    /\ yielded' = Append(yielded, iter_deref(iter[1]))
    /\ LET res == fetch_next(queue, iter[1])
       IN  /\ iter' = [iter EXCEPT ![1] = res.it]
           /\ queue' = res.queue
    /\ last' = [last EXCEPT !.polls = @ + fetch_next_polls(queue)]
    /\ UNCHANGED <<winVars, consVars, rangeVars, pc, Q0, convVars>>

LoopExit ==
    /\ pc = "loop"
    /\ ~iter_ne(iter[1], view_end)
    /\ pc' = "lazy_done"
    /\ UNCHANGED <<winVars, consVars, queue, iter, last, rangeVars, Q0, yielded, convVars>>

\* The engine holds the records of the snapshot again.
SameSnapshot ==
    /\ pc = "lazy_done"
    /\ queue' = Q0
    /\ pc' = "eager"
    /\ UNCHANGED <<winVars, consVars, iter, last, rangeVars, Q0, yielded, convVars>>

EagerRange ==
    /\ pc = "eager"
    /\ LET res == event_range_ctor(queue, <<>>)
       IN  /\ range' = [constructed |-> TRUE, m_events |-> res.m_events]
           /\ queue' = res.queue
    /\ pc' = "done"
    /\ UNCHANGED <<winVars, consVars, other_range, iter, last, passes, since, Q0, yielded, convVars>>

NextEquiv ==
    \/ LoopBegin
    \/ LoopBody
    \/ LoopExit
    \/ SameSnapshot
    \/ EagerRange

SpecEquiv == InitEquiv /\ [][NextEquiv]_vars

\* C2: for every queue content Q and no producer running, the events
\* yielded by iterating an event_view from begin() until it equals end()
\* are, element by element and in order, the sequence held by an
\* event_range constructed from the same Q.
C2_LazyEqualsEager ==
    pc = "done" =>
        /\ Len(yielded) = Len(range.m_events)
        /\ \A k \in 1..Len(yielded) : yielded[k] = range.m_events[k]

\* Both ran on a full queue that mixes supported and unsupported records,
\* starting with an unsupported one.
C2_Witness ==
    /\ pc = "done"
    /\ Len(Q0) = MaxQueue
    /\ ~Convertible(Q0[1])
    /\ \E k \in 2..Len(Q0) : ~Convertible(Q0[k])
    /\ Len(yielded) = 1

\* The comparison run of a program that keeps executing its loop.
SpecLoop == InitEquiv /\ [][NextEquiv]_vars /\ WF_vars(LoopBegin \/ LoopBody \/ LoopExit)

\* Each yielded event and each record still to come is one of the n records
\* of Q0, and at most n + 1 polls are made; once the loop has ended it has
\* yielded exactly the conversions of the convertible records of Q0 and
\* the queue is empty.
C14_Progress ==
    /\ pc = "loop" =>
          /\ Len(yielded) + (IF iter[1].m_has_event THEN 1 ELSE 0) + Len(queue) <= Len(Q0)
          /\ last.polls <= Len(Q0) + 1
    /\ pc = "lazy_done" =>
          /\ yielded = ConversionsOf(Q0)
          /\ queue = <<>>
          /\ last.polls <= Len(Q0) + 1

\* C14: with n records pending and no producer, the loop over the lazy
\* cursor never blocks and ends, after yielding exactly the convertible
\* records among the n, with at most n + 1 polls made in total and the
\* queue left empty.
C14_LoopTerminatesWithinPolls ==
    []C14_Progress /\ <>(pc \notin {"start", "loop"})

\* The loop ended on a full queue that mixes supported and unsupported
\* records and ends with an unsupported one, after MaxQueue + 1 polls.
C14_Witness ==
    /\ pc = "lazy_done"
    /\ Len(Q0) = MaxQueue
    /\ Convertible(Q0[1])
    /\ ~Convertible(Q0[MaxQueue])
    /\ last.polls = MaxQueue + 1

(***************************************************************************)
(* The converter alone: two raw records are drawn and each is converted.  *)
(***************************************************************************)
Data1Vals == {2, 100, 800}

Data2Vals == {0, 200, 600}

WindowSamples ==
    {RawWindow(ty, U64(0, 1000), 42, d1, d2) :
        ty \in WindowCaseLabels, d1 \in Data1Vals, d2 \in Data2Vals}

\* Discriminants of the engine's window range that the converter has no
\* case for: the record's window member is the active one.
UnsupportedWindowTypes == {520, 534}

ConvSamples ==
    WindowSamples
    \cup {RawOther(ty, U64(0, 1000)) : ty \in UnsupportedTypes \ UnsupportedWindowTypes}
    \cup {RawWindow(ty, U64(0, 1000), 42, 100, 200) : ty \in UnsupportedWindowTypes}
    \cup {RawQuit(U64(0, 1000)), RawMotion(U64(0, 1000), 42, 21, 8)}

Pending == [pending |-> TRUE]

InitConv ==
    /\ conv_in \in ConvSamples \X ConvSamples
    /\ conv_out = <<Pending, Pending>>
    /\ InitQueueSide
    /\ InitEquivIdle
    /\ InitOthersIdle

\* conv_out[k] = from_sdl_event(conv_in[k])
Convert(k) ==
    /\ conv_out[k] = Pending
    /\ conv_out' = [conv_out EXCEPT ![k] = from_sdl_event(conv_in[k])]
    /\ UNCHANGED <<winVars, consVars, conv_in, queue, iter, last, rangeVars, equivVars>>

NextConv == \E k \in {1, 2} : Convert(k)

SpecConv == InitConv /\ [][NextConv]_vars

Converted(k) == conv_out[k] # Pending

\* The kind named after each window discriminant.
KindOfDiscriminant ==
    { <<SDL_EVENT_WINDOW_SHOWN, "shown">>, <<SDL_EVENT_WINDOW_HIDDEN, "hidden">>,
      <<SDL_EVENT_WINDOW_EXPOSED, "exposed">>, <<SDL_EVENT_WINDOW_MOVED, "moved">>,
      <<SDL_EVENT_WINDOW_RESIZED, "resized">>,
      <<SDL_EVENT_WINDOW_PIXEL_SIZE_CHANGED, "size_changed">>,
      <<SDL_EVENT_WINDOW_MINIMIZED, "minimized">>, <<SDL_EVENT_WINDOW_MAXIMIZED, "maximized">>,
      <<SDL_EVENT_WINDOW_RESTORED, "restored">>, <<SDL_EVENT_WINDOW_MOUSE_ENTER, "enter">>,
      <<SDL_EVENT_WINDOW_MOUSE_LEAVE, "leave">>,
      <<SDL_EVENT_WINDOW_FOCUS_GAINED, "focus_gained">>,
      <<SDL_EVENT_WINDOW_FOCUS_LOST, "focus_lost">>,
      <<SDL_EVENT_WINDOW_CLOSE_REQUESTED, "close">>, <<SDL_EVENT_WINDOW_HIT_TEST, "hit_test">>,
      <<SDL_EVENT_WINDOW_ICCPROF_CHANGED, "icc_profile_changed">>,
      <<SDL_EVENT_WINDOW_DISPLAY_CHANGED, "display_changed">> }

\* The payload table: the payload that a kind carries for data1, data2.
PayloadOfKind(kind, data1, data2) ==
    CASE kind = "moved" -> [alt |-> "window_event_data_position", x |-> data1, y |-> data2]
      [] kind \in {"resized", "size_changed"} ->
            [alt |-> "window_event_data_size", width |-> data1, height |-> data2]
      [] kind = "display_changed" ->
            [alt |-> "window_event_data_display", display_index |-> data1]
      [] OTHER -> [alt |-> "window_event_data_none"]

\* The payload case that a kind carries.
PayloadCaseOfKind(kind) == PayloadOfKind(kind, 0, 0).alt

\* C8: every raw window record converts to a window event whose kind is the
\* one of its discriminant and whose payload follows the table for all
\* data1, data2; so the payload case of a converted window event is a
\* function of its kind.
C8_WindowPayloadTable ==
    \A k \in {1, 2} :
        \A p \in KindOfDiscriminant :
            (Converted(k) /\ conv_in[k].type = p[1]) =>
                /\ ~conv_out[k].threw
                /\ conv_out[k].value.alt = "window_event"
                /\ conv_out[k].value.event_type = p[2]
                /\ conv_out[k].value.data =
                      PayloadOfKind(p[2], conv_in[k].window.data1, conv_in[k].window.data2)
                /\ conv_out[k].value.data.alt = PayloadCaseOfKind(conv_out[k].value.event_type)

\* A resized record with data1 = 800, data2 = 600 and a shown record were
\* both converted.
C8_Witness ==
    /\ Converted(1)
    /\ Converted(2)
    /\ conv_in[1] = RawWindow(SDL_EVENT_WINDOW_RESIZED, U64(0, 1000), 42, 800, 600)
    /\ conv_in[2].type = SDL_EVENT_WINDOW_SHOWN

\* The window discriminants whose kind carries no payload.
NoPayloadTypes ==
    { SDL_EVENT_WINDOW_SHOWN, SDL_EVENT_WINDOW_HIDDEN, SDL_EVENT_WINDOW_EXPOSED,
      SDL_EVENT_WINDOW_MINIMIZED, SDL_EVENT_WINDOW_MAXIMIZED, SDL_EVENT_WINDOW_RESTORED,
      SDL_EVENT_WINDOW_MOUSE_ENTER, SDL_EVENT_WINDOW_MOUSE_LEAVE,
      SDL_EVENT_WINDOW_FOCUS_GAINED, SDL_EVENT_WINDOW_FOCUS_LOST,
      SDL_EVENT_WINDOW_CLOSE_REQUESTED, SDL_EVENT_WINDOW_HIT_TEST,
      SDL_EVENT_WINDOW_ICCPROF_CHANGED }

\* Two window records of the same discriminant that agree on every field
\* outside `free`.
DifferOnlyIn(r1, r2, free) ==
    /\ r1.type = r2.type
    /\ \A f \in {"timestamp", "windowID", "data1", "data2"} \ free :
          r1.window[f] = r2.window[f]

\* C9: two records of a payload-less window kind that differ only in data1
\* and data2 convert to equal events; two display_changed records that
\* differ only in data2 convert to equal events.
C9_UnusedDataIgnored ==
    (Converted(1) /\ Converted(2)) =>
        /\ (/\ conv_in[1].type \in NoPayloadTypes
            /\ DifferOnlyIn(conv_in[1], conv_in[2], {"data1", "data2"}))
              => conv_out[1] = conv_out[2]
        /\ (/\ conv_in[1].type = SDL_EVENT_WINDOW_DISPLAY_CHANGED
            /\ DifferOnlyIn(conv_in[1], conv_in[2], {"data2"}))
              => conv_out[1] = conv_out[2]

\* Two hit_test records that differ in data1 and in data2 were converted.
C9_Witness ==
    /\ Converted(1)
    /\ Converted(2)
    /\ conv_in[1].type = SDL_EVENT_WINDOW_HIT_TEST
    /\ conv_in[2].type = SDL_EVENT_WINDOW_HIT_TEST
    /\ conv_in[1].window.data1 # conv_in[2].window.data1
    /\ conv_in[1].window.data2 # conv_in[2].window.data2

\* The discriminants the converter is documented to know.
KnownTypes ==
    { p[1] : p \in KindOfDiscriminant }
    \cup { SDL_EVENT_QUIT, SDL_EVENT_KEY_DOWN, SDL_EVENT_KEY_UP, SDL_EVENT_TEXT_INPUT,
           SDL_EVENT_TEXT_EDITING, SDL_EVENT_MOUSE_MOTION, SDL_EVENT_MOUSE_BUTTON_DOWN,
           SDL_EVENT_MOUSE_BUTTON_UP, SDL_EVENT_MOUSE_WHEEL, SDL_EVENT_JOYSTICK_AXIS_MOTION,
           SDL_EVENT_JOYSTICK_BUTTON_DOWN, SDL_EVENT_JOYSTICK_BUTTON_UP,
           SDL_EVENT_JOYSTICK_HAT_MOTION }

\* C10 as stated: for a discriminant outside the known set the converter
\* hands the failure back to its caller as a value; it never throws.
C10_FailureIsReturned ==
    \A k \in {1, 2} :
        (Converted(k) /\ conv_in[k].type \notin KnownTypes) => ~conv_out[k].threw

\* C10 amended: for a discriminant outside the known set the converter
\* throws std::runtime_error whose message carries the raw numeric
\* discriminant, and so never gives back a typed event for such a record.
C10_UnsupportedKindThrows ==
    \A k \in {1, 2} :
        (Converted(k) /\ conv_in[k].type \notin KnownTypes) =>
            /\ conv_out[k].threw
            /\ conv_out[k].what = <<"Unsupported SDL event type: ", conv_in[k].type>>

\* A keymap-changed record (discriminant 772) was handed to the converter.
C10_Witness ==
    /\ Converted(1)
    /\ conv_in[1].type = 772
    /\ conv_in[1].type \notin KnownTypes


(***************************************************************************)
(* The event utilities of event_polling.cpp: wait_event,                   *)
(* wait_event_timeout, has_events and the two flush_events.                *)
(***************************************************************************)
\* std::optional<event>: std::nullopt, or an optional holding v.
nullopt == [has_value |-> FALSE]

optional(v) == [has_value |-> TRUE, value |-> v]

(***************************************************************************)
(* The engine's other primitives.  SDL_WaitEvent hands out the oldest      *)
(* pending record; on an empty queue it blocks until a record is pending,  *)
(* unless the wait itself fails, when it returns false.                    *)
(* SDL_WaitEventTimeout does the same within a time budget: on an empty    *)
(* queue it blocks until a record is pending or the budget has run out     *)
(* (expired), when it returns false.  SDL_PollEvent(NULL) reports          *)
(* whether a record is pending and removes none.  SDL_FlushEvents removes  *)
(* the pending records whose type lies in [minType, maxType].              *)
(***************************************************************************)
SDL_WaitEvent(q, fails) ==
    IF q # <<>> THEN [blocked |-> FALSE, ret |-> TRUE, sdl_event |-> Head(q), queue |-> Tail(q)]
    ELSE IF fails THEN [blocked |-> FALSE, ret |-> FALSE, queue |-> q]
    ELSE [blocked |-> TRUE, queue |-> q]

SDL_WaitEventTimeout(q, expired) ==
    IF q # <<>> THEN [blocked |-> FALSE, ret |-> TRUE, sdl_event |-> Head(q), queue |-> Tail(q)]
    ELSE IF expired THEN [blocked |-> FALSE, ret |-> FALSE, queue |-> q]
    ELSE [blocked |-> TRUE, queue |-> q]

SDL_PollEventNull(q) == [ret |-> q # <<>>, queue |-> q]

SDL_FlushEvents(q, minType, maxType) ==
    SelectSeq(q, LAMBDA r : ~(minType <= r.type /\ r.type <= maxType))

\* A wait_event without the try block: the converter's exception escapes.
wait_event_step_no_catch(q, fails) ==
    LET w == SDL_WaitEvent(q, fails)
    IN  IF w.blocked THEN [blocked |-> TRUE, queue |-> w.queue, done |-> FALSE]
        ELSE IF w.ret
        THEN LET r == from_sdl_event(w.sdl_event)
             IN  IF r.threw
                 THEN [blocked |-> FALSE, queue |-> w.queue, done |-> TRUE, outcome |-> r]
                 ELSE [blocked |-> FALSE, queue |-> w.queue, done |-> TRUE,
                       outcome |-> Returned(optional(r.value))]
        ELSE [blocked |-> FALSE, queue |-> w.queue, done |-> TRUE,
              outcome |-> Returned(nullopt)]

\* A wait_event whose handler gives up as wait_event_timeout's does.
wait_event_step_no_retry(q, fails) ==
    LET w == SDL_WaitEvent(q, fails)
    IN  IF w.blocked THEN [blocked |-> TRUE, queue |-> w.queue, done |-> FALSE]
        ELSE IF w.ret
        THEN LET r == from_sdl_event(w.sdl_event)
             IN  IF r.threw
                 THEN [blocked |-> FALSE, queue |-> w.queue, done |-> TRUE,
                       outcome |-> Returned(nullopt)]
                 ELSE [blocked |-> FALSE, queue |-> w.queue, done |-> TRUE,
                       outcome |-> Returned(optional(r.value))]
        ELSE [blocked |-> FALSE, queue |-> w.queue, done |-> TRUE,
              outcome |-> Returned(nullopt)]

(***************************************************************************)
(* std::optional<event> wait_event(): one SDL_WaitEvent call and what the  *)
(* function does with its result.  The call blocks on an empty queue       *)
(* (blocked), returns an event or nothing (done), or, in the handler of    *)
(* std::runtime_error, calls wait_event() again (neither).                 *)
(***************************************************************************)
wait_event_step(q, fails) ==
    LET w == SDL_WaitEvent(q, fails)
    IN  IF w.blocked THEN [blocked |-> TRUE, queue |-> w.queue, done |-> FALSE]
        ELSE IF w.ret
        THEN LET r == from_sdl_event(w.sdl_event)
             IN  IF r.threw THEN [blocked |-> FALSE, queue |-> w.queue, done |-> FALSE]
                 ELSE [blocked |-> FALSE, queue |-> w.queue, done |-> TRUE,
                       outcome |-> Returned(optional(r.value))]
        ELSE [blocked |-> FALSE, queue |-> w.queue, done |-> TRUE,
              outcome |-> Returned(nullopt)]

\* A wait_event_timeout that waits again after an unsupported record.
wait_event_timeout_step_retry(q, expired) ==
    LET w == SDL_WaitEventTimeout(q, expired)
    IN  IF w.blocked THEN [blocked |-> TRUE, queue |-> w.queue, done |-> FALSE]
        ELSE IF w.ret
        THEN LET r == from_sdl_event(w.sdl_event)
             IN  IF r.threw THEN [blocked |-> FALSE, queue |-> w.queue, done |-> FALSE]
                 ELSE [blocked |-> FALSE, queue |-> w.queue, done |-> TRUE,
                       outcome |-> Returned(optional(r.value))]
        ELSE [blocked |-> FALSE, queue |-> w.queue, done |-> TRUE,
              outcome |-> Returned(nullopt)]

(***************************************************************************)
(* std::optional<event> wait_event_timeout(timeout): its one               *)
(* SDL_WaitEventTimeout call and what the function does with the result.   *)
(* The call blocks on an empty queue while the budget lasts (blocked) and  *)
(* then returns an event or nothing (done); the timeout only sets how long *)
(* the engine waits, and expired says that the budget has run out.         *)
(***************************************************************************)
wait_event_timeout_step(q, expired) ==
    LET w == SDL_WaitEventTimeout(q, expired)
    IN  IF w.blocked THEN [blocked |-> TRUE, queue |-> w.queue, done |-> FALSE]
        ELSE IF w.ret
        THEN LET r == from_sdl_event(w.sdl_event)
             IN  IF r.threw
                 THEN [blocked |-> FALSE, queue |-> w.queue, done |-> TRUE,
                       outcome |-> Returned(nullopt)]
                 ELSE [blocked |-> FALSE, queue |-> w.queue, done |-> TRUE,
                       outcome |-> Returned(optional(r.value))]
        ELSE [blocked |-> FALSE, queue |-> w.queue, done |-> TRUE,
              outcome |-> Returned(nullopt)]

\* A has_events that polls with an event to fill in.
has_events_polls(q) ==
    LET p == SDL_PollEvent(q)
    IN  [ret |-> p.ret = TRUE, queue |-> p.queue]

\* bool has_events(): SDL_PollEvent(nullptr) == true
has_events(q) ==
    LET p == SDL_PollEventNull(q)
    IN  [ret |-> p.ret = TRUE, queue |-> p.queue]

\* A flush whose loop ends at the first record the converter does not
\* support.
flush_events_step_supported(q) ==
    LET p == SDL_PollEvent(q)
    IN  [queue |-> p.queue, done |-> ~p.ret \/ from_sdl_event(p.sdl_event).threw]

\* void flush_events(): while (SDL_PollEvent(&event)) {}, one iteration.
flush_events_step(q) ==
    LET p == SDL_PollEvent(q)
    IN  [queue |-> p.queue, done |-> ~p.ret]

\* A ranged flush that hands the two bounds over in the other order.
flush_events_range_swapped(q, min_type, max_type) == SDL_FlushEvents(q, max_type, min_type)

\* void flush_events(uint32_t min_type, uint32_t max_type)
flush_events_range(q, min_type, max_type) == SDL_FlushEvents(q, min_type, max_type)

(***************************************************************************)
(* The event utilities as steps of an application that makes one call at   *)
(* a time: pc names the call in progress and is "idle" between calls.  A   *)
(* step of wait_event, flush_events or poll_events_range is one engine     *)
(* call and what the function does with its result.                        *)
(***************************************************************************)
\* auto e = wait_event(); the call is entered and SDL_WaitEvent is called.
WaitEvent(fails) ==
    /\ pc = "idle"
    /\ LET res == wait_event_step(queue, fails)
       IN  /\ queue' = res.queue
           /\ pc' = IF res.done THEN "idle" ELSE "wait_event"
           /\ last' = [op |-> "wait_event", pre_queue |-> queue, during |-> <<>>,
                       fails |-> fails, blocked |-> res.blocked, done |-> res.done,
                       outcome |-> IF res.done THEN res.outcome ELSE Pending]
    /\ UNCHANGED <<winVars, consVars, range, other_range, iter, passes, since, Q0, yielded, convVars>>

\* The call goes on: the blocked SDL_WaitEvent returns because a record is
\* pending or the wait fails, or the handler's wait_event() calls
\* SDL_WaitEvent again.
WaitEventWake(fails) ==
    /\ pc = "wait_event"
    /\ IF queue # <<>> \/ fails THEN TRUE ELSE ~last.blocked
    /\ LET res == wait_event_step(queue, fails)
       IN  /\ queue' = res.queue
           /\ pc' = IF res.done THEN "idle" ELSE "wait_event"
           /\ last' = [last EXCEPT !.fails = fails, !.blocked = res.blocked,
                                   !.done = res.done,
                                   !.outcome = IF res.done THEN res.outcome ELSE Pending]
    /\ UNCHANGED <<winVars, consVars, range, other_range, iter, passes, since, Q0, yielded, convVars>>

\* auto e = wait_event_timeout(timeout); the call is entered and
\* SDL_WaitEventTimeout is called (expired at once: a budget of zero).
WaitEventTimeout(expired) ==
    /\ pc = "idle"
    /\ LET res == wait_event_timeout_step(queue, expired)
       IN  /\ queue' = res.queue
           /\ pc' = IF res.done THEN "idle" ELSE "wait_event_timeout"
           /\ last' = [op |-> "wait_event_timeout", pre_queue |-> queue, during |-> <<>>,
                       expired |-> expired, blocked |-> res.blocked, done |-> res.done,
                       outcome |-> IF res.done THEN res.outcome ELSE Pending]
    /\ UNCHANGED <<winVars, consVars, range, other_range, iter, passes, since, Q0, yielded, convVars>>

\* The blocked SDL_WaitEventTimeout returns: a record is pending, or the
\* budget has run out.
WaitEventTimeoutWake(expired) ==
    /\ pc = "wait_event_timeout"
    /\ IF queue # <<>> \/ expired THEN TRUE ELSE ~last.blocked
    /\ LET res == wait_event_timeout_step(queue, expired)
       IN  /\ queue' = res.queue
           /\ pc' = IF res.done THEN "idle" ELSE "wait_event_timeout"
           /\ last' = [last EXCEPT !.expired = expired, !.blocked = res.blocked,
                                   !.done = res.done,
                                   !.outcome = IF res.done THEN res.outcome ELSE Pending]
    /\ UNCHANGED <<winVars, consVars, range, other_range, iter, passes, since, Q0, yielded, convVars>>

\* bool b = has_events();
HasEvents ==
    /\ pc = "idle"
    /\ LET res == has_events(queue)
       IN  /\ queue' = res.queue
           /\ last' = [op |-> "has_events", pre_queue |-> queue, ret |-> res.ret]
    /\ UNCHANGED <<winVars, consVars, range, other_range, iter, passes, since, equivVars, convVars>>

\* flush_events(); (the call is entered, or its loop goes round again)
FlushEvents ==
    /\ pc \in {"idle", "flush_events"}
    /\ LET res == flush_events_step(queue)
       IN  /\ queue' = res.queue
           /\ pc' = IF res.done THEN "idle" ELSE "flush_events"
           /\ last' = IF pc = "idle"
                      THEN [op |-> "flush_events", pre_queue |-> queue, during |-> <<>>,
                            done |-> res.done]
                      ELSE [last EXCEPT !.done = res.done]
    /\ UNCHANGED <<winVars, consVars, range, other_range, iter, passes, since, Q0, yielded, convVars>>

\* The bounds the ranged flush is called with: the discriminants of the
\* records the engine delivers.
FlushBounds == {r.type : r \in QueueSamples}

\* flush_events(min_type, max_type);
FlushEventsRange(min_type, max_type) ==
    /\ pc = "idle"
    /\ queue' = flush_events_range(queue, min_type, max_type)
    /\ last' = [op |-> "flush_events_range", pre_queue |-> queue,
                min_type |-> min_type, max_type |-> max_type]
    /\ UNCHANGED <<winVars, consVars, range, other_range, iter, passes, since, equivVars, convVars>>

\* auto r = poll_events_range(); (and poll_events(), the same loop): the
\* vector of the range under construction is kept in the history.
PollEventsRange ==
    /\ pc \in {"idle", "poll_events_range"}
    /\ LET m_events == IF pc = "idle" THEN <<>> ELSE last.m_events
           res == event_range_ctor_step(queue, m_events)
       IN  /\ queue' = res.queue
           /\ pc' = IF res.done THEN "idle" ELSE "poll_events_range"
           /\ last' = IF pc = "idle"
                      THEN [op |-> "poll_events_range", pre_queue |-> queue,
                            during |-> <<>>, m_events |-> res.m_events, done |-> res.done]
                      ELSE [last EXCEPT !.m_events = res.m_events, !.done = res.done]
    /\ UNCHANGED <<winVars, consVars, range, other_range, iter, passes, since, Q0, yielded, convVars>>

InitAdapter == InitQueueSide /\ InitEquivIdle /\ InitConvIdle /\ InitOthersIdle

NextAdapter ==
    \/ \E r \in QueueSamples : Push(r)
    \/ \E fails \in BOOLEAN : WaitEvent(fails)
    \/ \E fails \in BOOLEAN : WaitEventWake(fails)
    \/ \E expired \in BOOLEAN : WaitEventTimeout(expired)
    \/ \E expired \in BOOLEAN : WaitEventTimeoutWake(expired)
    \/ HasEvents
    \/ FlushEvents
    \/ \E min_type, max_type \in FlushBounds : FlushEventsRange(min_type, max_type)
    \/ PollEventsRange
    \/ ViewBegin(1)
    \/ PreInc(1)

SpecAdapter == InitAdapter /\ [][NextAdapter]_vars

(***************************************************************************)
(* wait_event alone with the engine's producer: the specification of the  *)
(* blocking call.  A call blocked in SDL_WaitEvent is woken once a record  *)
(* is pending, hence the weak fairness of a wake-up without failure.       *)
(***************************************************************************)
NextWait ==
    \/ \E r \in QueueSamples : Push(r)
    \/ \E fails \in BOOLEAN : WaitEvent(fails)
    \/ \E fails \in BOOLEAN : WaitEventWake(fails)

SpecWait == InitAdapter /\ [][NextWait]_vars /\ WF_vars(WaitEventWake(FALSE))

(***************************************************************************)
(* Properties of the event utilities.                                      *)
(***************************************************************************)
\* The typed events that come from the supported records among S.
OriginsIn(S) == { from_sdl_event(r).value : r \in {s \in S : s.type \in KnownTypes} }

Records(Q) == { Q[k] : k \in 1..Len(Q) }

\* C11: no decode failure is observable: wait_event and wait_event_timeout
\* return without an exception escaping, whatever the queue holds; what
\* they return, every element of an event_range and the current event of
\* every cursor whose has-event flag is set comes from a supported record
\* that the call had before it, never from an unsupported one.
C11_NoDecodeFailureObservable ==
    /\ (last.op = "wait_event" /\ last.done) =>
          /\ ~last.outcome.threw
          /\ last.outcome.value.has_value =>
                last.outcome.value.value \in OriginsIn(Records(Seen))
    /\ (last.op = "wait_event_timeout" /\ last.done) =>
          /\ ~last.outcome.threw
          /\ last.outcome.value.has_value =>
                last.outcome.value.value \in OriginsIn(Records(Seen))
    /\ last.op = "poll_events_range" =>
          /\ \A k \in 1..Len(last.m_events) :
                last.m_events[k] \in OriginsIn(Records(Seen))
          /\ last.done => last.m_events = ConversionsOf(Seen) /\ queue = <<>>
    /\ \A c \in IterIds :
          (iter[c] # NoIter /\ iter[c].m_has_event) =>
              iter[c].m_current_event \in OriginsIn(QueueSamples)

\* wait_event found a full queue of unsupported records only, consumed
\* them all and then the engine's wait failed.
C11_Witness ==
    /\ last.op = "wait_event"
    /\ Len(last.pre_queue) = MaxQueue
    /\ \A k \in 1..Len(last.pre_queue) : last.pre_queue[k].type \notin KnownTypes
    /\ last.done
    /\ last.outcome = Returned(nullopt)
    /\ queue = <<>>

\* What wait_event does with the records Q it has before it: while it has
\* not returned, every record it has taken is unsupported; it returns the
\* conversion of the first convertible record of Q and leaves the records
\* behind it; it returns nothing only when the engine's wait fails, with
\* all of Q taken and none of it convertible.
C12_Safety ==
    last.op = "wait_event" =>
        LET Q == Seen
            k == FirstConvertible(Q)
        IN  /\ TakesInOrder
            /\ ~last.done =>
                  /\ \A j \in 1..Len(Consumed) : ~Convertible(Consumed[j])
                  /\ last.outcome = Pending
            /\ (last.done /\ k > 0) =>
                  /\ last.outcome = Returned(optional(from_sdl_event(Q[k]).value))
                  /\ queue = SubSeq(Q, k + 1, Len(Q))
            /\ (last.done /\ k = 0) =>
                  /\ last.outcome = Returned(nullopt)
                  /\ last.fails
                  /\ queue = <<>>

C12_BlockedWithConvertible ==
    /\ pc = "wait_event"
    /\ \E k \in 1..Len(queue) : Convertible(queue[k])

C12_ReturnedAnEvent ==
    /\ pc = "idle"
    /\ last.op = "wait_event"
    /\ last.done
    /\ ~last.outcome.threw
    /\ last.outcome.value.has_value

\* C12: wait_event returns the conversion of the first convertible record
\* the engine delivers, having consumed every unsupported record before
\* it; it returns nothing only when the engine's wait fails, never because
\* of an unsupported record; and a wait_event in progress returns an event
\* once a convertible record has been delivered.
C12_WaitEventReturnsFirstConvertible ==
    []C12_Safety /\ (C12_BlockedWithConvertible ~> C12_ReturnedAnEvent)

\* wait_event took an unsupported record, blocked on the empty queue, and
\* returned the conversion of a convertible record delivered afterwards.
C12_Witness ==
    /\ C12_ReturnedAnEvent
    /\ Len(last.pre_queue) = 1
    /\ ~Convertible(last.pre_queue[1])
    /\ Len(last.during) >= 1
    /\ Convertible(last.during[1])
    /\ ~last.fails

\* C13: wait_event_timeout consumes at most one record; it returns an
\* event exactly when the engine delivered a record within the timeout and
\* that record is convertible; an unsupported delivered record makes it
\* return nothing without another wait, the records behind it staying
\* pending; on timeout it returns nothing and the queue is unchanged.  The
\* record delivered is the first of Q, the records pending on entry
\* followed by those that arrive while the call waits; while the call
\* waits it has taken nothing.
C13_TimeoutTakesOneRecord ==
    last.op = "wait_event_timeout" =>
        LET Q == Seen
        IN  /\ ~last.done =>
                  /\ last.blocked
                  /\ last.pre_queue = <<>>
                  /\ queue = Q
                  /\ last.outcome = Pending
            /\ last.done =>
                  /\ ~last.outcome.threw
                  /\ IF Q = <<>>
                     THEN /\ last.expired
                          /\ last.outcome.value = nullopt
                          /\ queue = last.pre_queue
                     ELSE /\ queue = Tail(Q)
                          /\ last.outcome.value.has_value = Convertible(Q[1])
                          /\ Convertible(Q[1]) =>
                                last.outcome.value = optional(from_sdl_event(Q[1]).value)

\* The call met an unsupported record with a convertible one behind it.
C13_Witness ==
    /\ last.op = "wait_event_timeout"
    /\ last.done
    /\ Len(last.pre_queue) >= 2
    /\ ~Convertible(last.pre_queue[1])
    /\ Convertible(last.pre_queue[2])
    /\ last.outcome = Returned(nullopt)
    /\ queue = Tail(last.pre_queue)

\* C15: right after flush_events() the queue is empty whatever it held,
\* has_events() is false, a newly constructed event_range is empty and a
\* new cursor's begin() equals end().
C15_FlushEmptiesQueue ==
    (last.op = "flush_events" /\ last.done) =>
        /\ queue = <<>>
        /\ ~has_events(queue).ret
        /\ range_empty(event_range_ctor(queue, <<>>).m_events)
        /\ iter_eq(view_begin(queue).it, view_end)

\* A full queue starting with an unsupported record and holding a
\* supported one was flushed.
C15_Witness ==
    /\ last.op = "flush_events"
    /\ last.done
    /\ Len(last.pre_queue) = MaxQueue
    /\ ~Convertible(last.pre_queue[1])
    /\ \E k \in 2..MaxQueue : Convertible(last.pre_queue[k])

\* C16: flush_events(min_type, max_type) removes exactly the pending
\* records whose discriminant d has min_type <= d <= max_type; the others
\* stay pending in their order and a later event_range delivers them.
C16_RangedFlushRemovesRange ==
    last.op = "flush_events_range" =>
        LET Q == last.pre_queue
            kept == { k \in 1..Len(Q) :
                        Q[k].type < last.min_type \/ Q[k].type > last.max_type }
            Before(k) == Cardinality({ j \in kept : j < k })
        IN  /\ Len(queue) = Cardinality(kept)
            /\ \A k \in kept : queue[Before(k) + 1] = Q[k]
            /\ event_range_ctor(queue, <<>>).m_events = ConversionsOf(queue)

\* A ranged flush with min_type < max_type removed some records of a full
\* queue and left others.
C16_Witness ==
    /\ last.op = "flush_events_range"
    /\ last.min_type < last.max_type
    /\ Len(last.pre_queue) = MaxQueue
    /\ queue # <<>>
    /\ Len(queue) < MaxQueue

\* C17: has_events() leaves the queue as it found it and returns true
\* exactly when a raw record is pending, convertible or not.
C17_HasEventsPeeks ==
    last.op = "has_events" =>
        /\ queue = last.pre_queue
        /\ last.ret = (last.pre_queue # <<>>)

\* has_events() was true on a queue of unsupported records only, from
\* which an event_range would be empty.
C17_Witness ==
    /\ last.op = "has_events"
    /\ last.ret
    /\ \A k \in 1..Len(last.pre_queue) : ~Convertible(last.pre_queue[k])
    /\ range_empty(event_range_ctor(queue, <<>>).m_events)

(***************************************************************************)
(* The converter on records of every supported kind: one raw record is     *)
(* drawn, with field values at the ends of the raw types' ranges, and      *)
(* converted.                                                              *)
(***************************************************************************)
RawKey(ty, t, scancode, key, mod, repeat) ==
    [type |-> ty,
     key |-> [timestamp |-> t, windowID |-> 42, scancode |-> scancode, key |-> key,
              mod |-> mod, repeat |-> repeat]]

RawTextInput(t, text) ==
    [type |-> SDL_EVENT_TEXT_INPUT, text |-> [timestamp |-> t, windowID |-> 42, text |-> text]]

RawTextEditing(t, text, start, length) ==
    [type |-> SDL_EVENT_TEXT_EDITING,
     edit |-> [timestamp |-> t, windowID |-> 42, text |-> text, start |-> start,
               length |-> length]]

RawButton(ty, t, button, clicks, x, y) ==
    [type |-> ty,
     button |-> [timestamp |-> t, windowID |-> 42, which |-> 7, button |-> button,
                 clicks |-> clicks, x |-> x, y |-> y]]

RawWheel(t, x, y, direction) ==
    [type |-> SDL_EVENT_MOUSE_WHEEL,
     wheel |-> [timestamp |-> t, windowID |-> 42, which |-> 7, x |-> x, y |-> y,
                direction |-> direction]]

RawJoyAxis(t, axis, value) ==
    [type |-> SDL_EVENT_JOYSTICK_AXIS_MOTION,
     jaxis |-> [timestamp |-> t, which |-> 7, axis |-> axis, value |-> value]]

RawJoyButton(ty, t, button) ==
    [type |-> ty, jbutton |-> [timestamp |-> t, which |-> 7, button |-> button]]

RawJoyHat(t, hat, value) ==
    [type |-> SDL_EVENT_JOYSTICK_HAT_MOTION,
     jhat |-> [timestamp |-> t, which |-> 7, hat |-> hat, value |-> value]]

\* A source text of n bytes, none of them NUL.
Text(n) == [i \in 1..n |-> 97 + (i % 26)]

\* Source lengths around the capacity of the typed event's buffer.
TextLens ==
    {0, 1, TextBufferSize - 2, TextBufferSize - 1, TextBufferSize, TextBufferSize + 1}

\* Engine timestamps (nanoseconds since start) below and above 2^32.
Timestamps == {U64(0, 1000), U64(1, 1000)}

\* Float coordinates in halves: (10, 4), (10.5, -3.5).
Coords == {<<20, 8>>, <<21, -7>>}

FieldSamples ==
    {RawKey(ty, t, k[1], k[2], k[3], k[4]) :
        ty \in {SDL_EVENT_KEY_DOWN, SDL_EVENT_KEY_UP}, t \in Timestamps,
        k \in {<<4, 97, 0, 0>>, <<82, 1073741906, 4097, 1>>}}
    \cup {RawTextInput(U64(0, 1000), Text(n)) : n \in TextLens}
    \cup {RawTextEditing(U64(0, 1000), Text(n), sl[1], sl[2]) :
            n \in TextLens, sl \in {<<0, 0>>, <<-1, 40>>}}
    \cup {RawMotion(t, 42, c[1], c[2]) : t \in Timestamps, c \in Coords}
    \cup {RawButton(ty, U64(0, 1000), b, b, c[1], c[2]) :
            ty \in {SDL_EVENT_MOUSE_BUTTON_DOWN, SDL_EVENT_MOUSE_BUTTON_UP},
            b \in {SDL_BUTTON_LEFT, SDL_BUTTON_X2}, c \in Coords}
    \cup {RawWheel(U64(0, 1000), c[1], c[2], dir) : c \in {<<2, -2>>, <<1, -3>>}, dir \in {0, 1}}
    \cup {RawJoyAxis(U64(0, 1000), a, v) : a \in {0, 255}, v \in {-32768, 32767}}
    \cup {RawJoyButton(ty, U64(0, 1000), b) :
            ty \in {SDL_EVENT_JOYSTICK_BUTTON_DOWN, SDL_EVENT_JOYSTICK_BUTTON_UP},
            b \in {0, 255}}
    \cup {RawJoyHat(U64(0, 1000), h, v) : h \in {0, 255}, v \in {0, 12}}
    \cup {RawQuit(t) : t \in Timestamps}
    \cup {RawWindow(SDL_EVENT_WINDOW_MOVED, t, 42, -5, 300) : t \in Timestamps}
    \cup {RawWindow(ty, U64(0, 1000), 42, 640, 480) : ty \in WindowCaseLabels}
    \cup {RawButton(SDL_EVENT_MOUSE_BUTTON_DOWN, U64(0, 1000), b, 1, 20, 8) :
            b \in {0, 1, 2, 3, 4, 5, 6, 255}}

InitFields ==
    /\ conv_in \in {<<r, r>> : r \in FieldSamples}
    /\ conv_out = <<Pending, Pending>>
    /\ InitQueueSide
    /\ InitEquivIdle
    /\ InitOthersIdle

SpecFields == InitFields /\ [][NextConv]_vars

(***************************************************************************)
(* Properties of the converter's field copies, checked under SpecFields.   *)
(***************************************************************************)
\* The string a char buffer holds: the bytes before its first NUL (the
\* whole buffer when it holds no NUL).
CStr(buf) ==
    LET nuls == { i \in DOMAIN buf : buf[i] = 0 }
        n == IF nuls = {} THEN Cardinality(DOMAIN buf)
             ELSE (CHOOSE i \in nuls : \A j \in nuls : i <= j) - 1
    IN  [i \in 1..n |-> buf[i]]

Min(a, b) == IF a <= b THEN a ELSE b

\* The source text of a text-input or text-editing record.
SourceText(r) == IF r.type = SDL_EVENT_TEXT_INPUT THEN r.text.text ELSE r.edit.text

\* C19: for a text-input or text-editing record with source text s the
\* conversion succeeds and the 32-byte buffer holds the first
\* min(len(s), 31) bytes of s and then NUL; its last byte is always NUL; a
\* source of 32 bytes or more decodes to its first 31 bytes and an empty
\* source to the empty string.
C19_TextTruncation ==
    \A k \in {1, 2} :
        (Converted(k) /\ conv_in[k].type \in {SDL_EVENT_TEXT_INPUT, SDL_EVENT_TEXT_EDITING}) =>
            LET s == SourceText(conv_in[k])
                n == Min(Len(s), TextBufferSize - 1)
            IN  /\ ~conv_out[k].threw
                /\ DOMAIN conv_out[k].value.text = 1..TextBufferSize
                /\ \A i \in 1..n : conv_out[k].value.text[i] = s[i]
                /\ conv_out[k].value.text[n + 1] = 0
                /\ conv_out[k].value.text[TextBufferSize] = 0
                /\ CStr(conv_out[k].value.text) = SubSeq(s, 1, n)
                /\ Len(s) >= TextBufferSize =>
                      Len(CStr(conv_out[k].value.text)) = TextBufferSize - 1
                /\ Len(s) = 0 => CStr(conv_out[k].value.text) = <<>>

\* A text-editing record whose text is one byte longer than the buffer
\* was converted.
C19_Witness ==
    /\ Converted(1)
    /\ conv_in[1].type = SDL_EVENT_TEXT_EDITING
    /\ Len(conv_in[1].edit.text) = TextBufferSize + 1
    /\ ~conv_out[1].threw

\* A std::uint32_t n has exactly the value of the engine's 64-bit t.
SameAsU64(n, t) == t.hi = 0 /\ t.lo = n

\* A std::int32_t n has exactly the value of the engine's float of h halves.
SameAsFloat(n, h) == h = 2 * n

\* The member of the raw record that the converter reads for its kind.
Member(r) ==
    CASE r.type = SDL_EVENT_QUIT -> r.quit
      [] r.type \in WindowCaseLabels -> r.window
      [] r.type \in {SDL_EVENT_KEY_DOWN, SDL_EVENT_KEY_UP} -> r.key
      [] r.type = SDL_EVENT_TEXT_INPUT -> r.text
      [] r.type = SDL_EVENT_TEXT_EDITING -> r.edit
      [] r.type = SDL_EVENT_MOUSE_MOTION -> r.motion
      [] r.type \in {SDL_EVENT_MOUSE_BUTTON_DOWN, SDL_EVENT_MOUSE_BUTTON_UP} -> r.button
      [] r.type = SDL_EVENT_MOUSE_WHEEL -> r.wheel
      [] r.type = SDL_EVENT_JOYSTICK_AXIS_MOTION -> r.jaxis
      [] r.type \in {SDL_EVENT_JOYSTICK_BUTTON_DOWN, SDL_EVENT_JOYSTICK_BUTTON_UP} -> r.jbutton
      [] r.type = SDL_EVENT_JOYSTICK_HAT_MOTION -> r.jhat

\* Every scalar field of the typed event e has exactly the value of the
\* field of the raw member m it was copied from.
ScalarsRoundTrip(e, m) ==
    /\ SameAsU64(e.timestamp, m.timestamp)
    /\ "id" \in DOMAIN e => e.id = m.windowID
    /\ "which" \in DOMAIN e => e.which = m.which
    /\ e.alt = "key_event" =>
          e.scancode = m.scancode /\ e.keycode = m.key /\ e.mod = m.mod
    /\ e.alt = "text_editing_event" => e.start = m.start /\ e.length = m.length
    /\ e.alt = "mouse_motion_event" =>
          /\ e.state = m.state
          /\ SameAsFloat(e.x, m.x) /\ SameAsFloat(e.y, m.y)
          /\ SameAsFloat(e.xrel, m.xrel) /\ SameAsFloat(e.yrel, m.yrel)
    /\ e.alt = "mouse_button_event" =>
          e.clicks = m.clicks /\ SameAsFloat(e.x, m.x) /\ SameAsFloat(e.y, m.y)
    /\ e.alt = "mouse_wheel_event" =>
          SameAsFloat(e.x, m.x) /\ SameAsFloat(e.y, m.y) /\ e.direction = m.direction
    /\ e.alt = "joystick_axis_event" => e.axis = m.axis /\ e.value = m.value
    /\ e.alt = "joystick_button_event" => e.button = m.button
    /\ e.alt = "joystick_hat_event" => e.hat = m.hat /\ e.value = m.value

\* C20: for every supported record, each scalar field the converter copies
\* into the typed event has exactly the value of the raw field: no
\* truncation, wrap-around or reinterpretation.
C20_ScalarFieldsRoundTrip ==
    \A k \in {1, 2} :
        (Converted(k) /\ ~conv_out[k].threw) =>
            ScalarsRoundTrip(conv_out[k].value, Member(conv_in[k]))

(***************************************************************************)
(* The window payload accessors of event_window.hpp.                       *)
(***************************************************************************)
\* The enumerators of window_event_type.
WindowEventTypes ==
    { "shown", "hidden", "exposed", "moved", "resized", "size_changed", "minimized",
      "maximized", "restored", "enter", "leave", "focus_gained", "focus_lost", "close",
      "take_focus", "hit_test", "icc_profile_changed", "display_changed" }

\* A get_position that looks at the payload only.
get_position_any_kind(event) ==
    IF event.data.alt = "window_event_data_position" THEN optional(event.data) ELSE nullopt

get_position(event) ==
    IF event.event_type = "moved"
    THEN IF event.data.alt = "window_event_data_position" THEN optional(event.data)
         ELSE nullopt
    ELSE nullopt

get_size(event) ==
    IF event.event_type = "resized" \/ event.event_type = "size_changed"
    THEN IF event.data.alt = "window_event_data_size" THEN optional(event.data) ELSE nullopt
    ELSE nullopt

get_display(event) ==
    IF event.event_type = "display_changed"
    THEN IF event.data.alt = "window_event_data_display" THEN optional(event.data)
         ELSE nullopt
    ELSE nullopt

\* Window events as an application builds them: every kind with every
\* payload alternative, matching or not.
PayloadSamples ==
    { window_event_data_none, window_event_data_position(100, 200),
      window_event_data_position(0, 0), window_event_data_size(800, 600),
      window_event_data_size(0, 0), window_event_data_display(2),
      window_event_data_display(0) }

BuiltWindowEvents ==
    { [alt |-> "window_event", timestamp |-> 1000, id |-> window_id(42),
       event_type |-> t, data |-> p] : t \in WindowEventTypes, p \in PayloadSamples }

\* The three accessors are called on the window event e.
Access(e, converted) ==
    /\ last' = [op |-> "accessors", event |-> e, converted |-> converted,
                position |-> get_position(e), size |-> get_size(e),
                display |-> get_display(e)]
    /\ UNCHANGED <<winVars, consVars, queue, iter, rangeVars, equivVars, convVars>>

AccessBuilt(e) == Access(e, FALSE)

\* The accessors are called on the converter's result for a window record.
AccessConverted(r) ==
    /\ ~from_sdl_event(r).threw
    /\ Access(from_sdl_event(r).value, TRUE)

NextAccess ==
    \/ \E e \in BuiltWindowEvents : AccessBuilt(e)
    \/ \E r \in WindowSamples : AccessConverted(r)

SpecAccess == InitAdapter /\ [][NextAccess]_vars

\* C21: get_position gives a value exactly for kind moved with a position
\* payload, get_size exactly for kind resized or size_changed with a size
\* payload, get_display exactly for kind display_changed with a display
\* payload, and the value is the payload; on an event the converter
\* produced at most one accessor gives a value, and none does for a kind
\* without payload.
C21_AccessorsMatchKindAndPayload ==
    last.op = "accessors" =>
        LET e == last.event
            got == { a \in {"position", "size", "display"} : last[a].has_value }
        IN  /\ last.position.has_value <=>
                  (e.event_type = "moved" /\ e.data.alt = "window_event_data_position")
            /\ last.size.has_value <=>
                  (e.event_type \in {"resized", "size_changed"}
                     /\ e.data.alt = "window_event_data_size")
            /\ last.display.has_value <=>
                  (e.event_type = "display_changed"
                     /\ e.data.alt = "window_event_data_display")
            /\ \A a \in got : last[a].value = e.data
            /\ last.converted =>
                  /\ Cardinality(got) <= 1
                  /\ e.event_type \notin {"moved", "resized", "size_changed", "display_changed"}
                        => got = {}
                  /\ e.event_type \in {"moved", "resized", "size_changed", "display_changed"}
                        => Cardinality(got) = 1

\* The accessors were called on a built event of kind resized that carries
\* a position payload: none of them gives a value.
C21_Witness ==
    /\ last.op = "accessors"
    /\ ~last.converted
    /\ last.event.event_type = "resized"
    /\ last.event.data.alt = "window_event_data_position"
    /\ ~last.position.has_value
    /\ ~last.size.has_value
    /\ ~last.display.has_value

(***************************************************************************)
(* Properties of the converter's dispatch, checked under SpecFields.       *)
(***************************************************************************)
\* The variant each known discriminant stands for.
VariantOfDiscriminant(t) ==
    CASE t = SDL_EVENT_QUIT -> "quit_event"
      [] t \in { p[1] : p \in KindOfDiscriminant } -> "window_event"
      [] t \in {SDL_EVENT_KEY_DOWN, SDL_EVENT_KEY_UP} -> "key_event"
      [] t = SDL_EVENT_TEXT_INPUT -> "text_input_event"
      [] t = SDL_EVENT_TEXT_EDITING -> "text_editing_event"
      [] t = SDL_EVENT_MOUSE_MOTION -> "mouse_motion_event"
      [] t \in {SDL_EVENT_MOUSE_BUTTON_DOWN, SDL_EVENT_MOUSE_BUTTON_UP} -> "mouse_button_event"
      [] t = SDL_EVENT_MOUSE_WHEEL -> "mouse_wheel_event"
      [] t = SDL_EVENT_JOYSTICK_AXIS_MOTION -> "joystick_axis_event"
      [] t \in {SDL_EVENT_JOYSTICK_BUTTON_DOWN, SDL_EVENT_JOYSTICK_BUTTON_UP} ->
            "joystick_button_event"
      [] t = SDL_EVENT_JOYSTICK_HAT_MOTION -> "joystick_hat_event"

DownTypes ==
    {SDL_EVENT_KEY_DOWN, SDL_EVENT_MOUSE_BUTTON_DOWN, SDL_EVENT_JOYSTICK_BUTTON_DOWN}

\* The pressed/released field of a key, mouse-button or joystick-button event.
StateOf(e) == IF e.alt = "key_event" THEN e.key_state ELSE e.button_state

\* C23: every known discriminant converts to the one variant that matches
\* it; in key, mouse-button and joystick-button events the state is
\* pressed exactly for the *_DOWN discriminant and released exactly for the
\* *_UP one, whatever the payload; key repeat is true exactly when the raw
\* repeat field is non-zero.
C23_DispatchOnDiscriminant ==
    \A k \in {1, 2} :
        (Converted(k) /\ conv_in[k].type \in KnownTypes) =>
            /\ ~conv_out[k].threw
            /\ conv_out[k].value.alt = VariantOfDiscriminant(conv_in[k].type)
            /\ conv_out[k].value.alt
                  \in {"key_event", "mouse_button_event", "joystick_button_event"} =>
                  /\ StateOf(conv_out[k].value) = "pressed" <=> conv_in[k].type \in DownTypes
                  /\ StateOf(conv_out[k].value) = "released" <=> conv_in[k].type \notin DownTypes
            /\ conv_out[k].value.alt = "key_event" =>
                  (conv_out[k].value.repeat <=> conv_in[k].key.repeat # 0)

\* A joystick-button-down record for button 0 was converted.
C23_Witness ==
    /\ Converted(1)
    /\ conv_in[1].type = SDL_EVENT_JOYSTICK_BUTTON_DOWN
    /\ conv_in[1].jbutton.button = 0
    /\ ~conv_out[1].threw
    /\ conv_out[1].value.button_state = "pressed"

\* mouse_button_event::button : std::uint8_t { left = 1, ..., x2 = 5 }
ButtonValue(name) ==
    CASE name = "left" -> 1
      [] name = "middle" -> 2
      [] name = "right" -> 3
      [] name = "x1" -> 4
      [] name = "x2" -> 5

\* C24: every raw mouse-button record converts to an event whose button is
\* one of left, middle, right, x1, x2; it is the raw button number when
\* that is 1..5, and left for any other number, the result being the one
\* of the same record with button number 1.
C24_MouseButtonDefaultsToLeft ==
    \A k \in {1, 2} :
        (Converted(k)
           /\ conv_in[k].type \in {SDL_EVENT_MOUSE_BUTTON_DOWN, SDL_EVENT_MOUSE_BUTTON_UP}) =>
            LET b == conv_in[k].button.button
            IN  /\ ~conv_out[k].threw
                /\ conv_out[k].value.mouse_button \in {"left", "middle", "right", "x1", "x2"}
                /\ b \in 1..5 => ButtonValue(conv_out[k].value.mouse_button) = b
                /\ b \notin 1..5 =>
                      /\ conv_out[k].value.mouse_button = "left"
                      /\ conv_out[k] =
                            from_sdl_event([conv_in[k] EXCEPT !.button.button = SDL_BUTTON_LEFT])

\* A mouse-button record with button number 6 was converted to a left
\* button event.
C24_Witness ==
    /\ Converted(1)
    /\ conv_in[1].type = SDL_EVENT_MOUSE_BUTTON_DOWN
    /\ conv_in[1].button.button = 6
    /\ ~conv_out[1].threw
    /\ conv_out[1].value.mouse_button = "left"

(***************************************************************************)
(* Properties of the window branch, checked under SpecConv.                *)
(***************************************************************************)
\* The discriminants that convert_window_event_data has a case for.
HandledByInnerSwitch == { t \in 0..2047 : ~convert_window_event_data(t, 0, 0).threw }

\* C25: the discriminants that from_sdl_event routes to its window case
\* are exactly those that convert_window_event_data handles, so no
\* conversion fails with the inner switch's message; a discriminant outside
\* that set gives the top-level unsupported failure when it is not a known
\* one, and never a window event.
C25_WindowLabelsMatchInnerSwitch ==
    /\ WindowCaseLabels = HandledByInnerSwitch
    /\ \A k \in {1, 2} :
          Converted(k) =>
            /\ conv_out[k].threw =>
                  conv_out[k].what = <<"Unsupported SDL event type: ", conv_in[k].type>>
            /\ conv_in[k].type \notin HandledByInnerSwitch =>
                  /\ ~conv_out[k].threw => conv_out[k].value.alt # "window_event"
                  /\ conv_in[k].type \notin KnownTypes => conv_out[k].threw

\* A record of the engine's window range without a case was converted and
\* gave the top-level failure.
C25_Witness ==
    /\ Converted(1)
    /\ conv_in[1].type \in UnsupportedWindowTypes
    /\ "window" \in DOMAIN conv_in[1]
    /\ conv_out[1] = ThrewRuntimeError("Unsupported SDL event type: ", conv_in[1].type)

\* The window kind that a record with discriminant t converts to, for the
\* discriminants of the engine's window range; "none" when it converts to
\* no window event.
KindProducedBy ==
    [t \in 512..767 |->
        LET o == from_sdl_event(RawWindow(t, U64(0, 1000), 42, 100, 200))
        IN  IF ~o.threw /\ o.value.alt = "window_event" THEN o.value.event_type ELSE "none"]

\* The discriminants of the window range that convert to each kind.
DiscriminantsOfKind ==
    [e \in WindowEventTypes |-> { t \in DOMAIN KindProducedBy : KindProducedBy[t] = e }]

\* C26: no conversion gives a window event of kind take_focus; every other
\* window_event_type enumerator is the kind of exactly one discriminant.
C26_TakeFocusNeverProduced ==
    /\ \A e \in WindowEventTypes \ {"take_focus"} : Cardinality(DiscriminantsOfKind[e]) = 1
    /\ DiscriminantsOfKind["take_focus"] = {}
    /\ \A k \in {1, 2} :
          (Converted(k) /\ ~conv_out[k].threw /\ conv_out[k].value.alt = "window_event") =>
            /\ conv_out[k].value.event_type \in WindowEventTypes \ {"take_focus"}
            /\ KindProducedBy[conv_in[k].type] = conv_out[k].value.event_type
    /\ (/\ Converted(1) /\ ~conv_out[1].threw /\ conv_out[1].value.alt = "window_event"
        /\ Converted(2) /\ ~conv_out[2].threw /\ conv_out[2].value.alt = "window_event"
        /\ conv_out[1].value.event_type = conv_out[2].value.event_type) =>
          conv_in[1].type = conv_in[2].type

\* Two focus records were converted: focus-gained and focus-lost give the
\* two focus kinds, neither of which is take_focus.
C26_Witness ==
    /\ Converted(1)
    /\ Converted(2)
    /\ conv_in[1].type = SDL_EVENT_WINDOW_FOCUS_GAINED
    /\ conv_in[2].type = SDL_EVENT_WINDOW_FOCUS_LOST
    /\ conv_out[1].value.event_type = "focus_gained"
    /\ conv_out[2].value.event_type = "focus_lost"

(***************************************************************************)
(* laya::window: an owning wrapper of one native window handle.  A window  *)
(* object is [m_window, m_id]; the null handle is 0 and handles are the    *)
(* indices of sdl_windows, which counts for every window the engine made   *)
(* the SDL_DestroyWindow calls it received.                                *)
(***************************************************************************)
MaxHandles == 3

\* The program's window variables; one that holds no object is NoWindow.
WinObjs == {1, 2, 3}

NoWindow == [absent |-> TRUE]

\* window_id::is_valid
window_id_is_valid(m_id) == m_id # 0

\* SDL_CreateWindowWithProperties: a new window, or the null handle.
SDL_CreateWindowWithProperties(sdl, ok) ==
    IF ok THEN [ret |-> Len(sdl) + 1, sdl |-> Append(sdl, [destroyed |-> 0])]
    ELSE [ret |-> 0, sdl |-> sdl]

\* SDL_GetWindowID: the non-zero id of the window, or 0 when the engine
\* fails to give one.
SDL_GetWindowID(w, id_ok) == IF id_ok THEN 100 + w ELSE 0

SDL_DestroyWindow(sdl, w) == [sdl EXCEPT ![w].destroyed = @ + 1]

\* window::window(const window_args&): the object and the engine afterwards,
\* or the thrown error.  The throw on an invalid id leaves the window the
\* engine made: no destructor runs for an object whose constructor threw.
window_ctor(sdl, ok, id_ok) ==
    LET c == SDL_CreateWindowWithProperties(sdl, ok)
        m_id == window_id(SDL_GetWindowID(c.ret, id_ok))
    IN  IF c.ret = 0 THEN [threw |-> TRUE, sdl |-> c.sdl]
        ELSE IF ~window_id_is_valid(m_id) THEN [threw |-> TRUE, sdl |-> c.sdl]
        ELSE [threw |-> FALSE, self |-> [m_window |-> c.ret, m_id |-> m_id], sdl |-> c.sdl]

\* window::~window()
window_dtor(self, sdl) == IF self.m_window # 0 THEN SDL_DestroyWindow(sdl, self.m_window) ELSE sdl

\* A move constructor that copies the members and leaves the source alone.
window_move_ctor_copy(other) == [self |-> other, other |-> other]

\* window::window(window&& other): std::exchange on both members.
window_move_ctor(other) ==
    [self |-> [m_window |-> other.m_window, m_id |-> other.m_id],
     other |-> [m_window |-> 0, m_id |-> window_id(0)]]

\* window& window::operator=(window&& other); same says that other is *this
\* (then there is one object and no other in the result).
window_move_assign(self, other, same, sdl) ==
    IF same THEN [self |-> self, sdl |-> sdl]
    ELSE LET sdl1 == IF self.m_window # 0 THEN SDL_DestroyWindow(sdl, self.m_window) ELSE sdl
         IN  [self |-> [m_window |-> other.m_window, m_id |-> other.m_id],
              other |-> [m_window |-> 0, m_id |-> window_id(0)],
              sdl |-> sdl1]

\* bool window::is_valid() const
is_valid(self) == self.m_window # 0 /\ window_id_is_valid(self.m_id)

\* The members that start with ensure_handle() and then make one engine
\* call, throwing error::from_sdl() when it fails.
HandleOps == {"show", "hide", "set_title", "set_size", "get_size"}

\* One such member: the outcome and the number of engine calls made.
handle_op(self, sdl_ok) ==
    IF self.m_window = 0
    THEN [threw |-> TRUE, what |-> "Window handle is null", sdl_calls |-> 0]
    ELSE IF ~sdl_ok THEN [threw |-> TRUE, what |-> "from_sdl", sdl_calls |-> 1]
    ELSE [threw |-> FALSE, sdl_calls |-> 1]

otherVars == <<consVars, queue, iter, rangeVars, equivVars, convVars>>

\* laya::window o(...);
Construct(o, ok, id_ok) ==
    /\ windows[o] = NoWindow
    /\ Len(sdl_windows) < MaxHandles
    /\ LET c == window_ctor(sdl_windows, ok, id_ok)
       IN  /\ windows' = IF c.threw THEN windows ELSE [windows EXCEPT ![o] = c.self]
           /\ sdl_windows' = c.sdl
           /\ last' = [op |-> "construct", obj |-> o, threw |-> c.threw, pre |-> windows,
                       pre_sdl |-> sdl_windows]
    /\ UNCHANGED otherVars

\* o goes out of scope.
Destruct(o) ==
    /\ windows[o] # NoWindow
    /\ sdl_windows' = window_dtor(windows[o], sdl_windows)
    /\ windows' = [windows EXCEPT ![o] = NoWindow]
    /\ last' = [op |-> "destruct", obj |-> o, pre |-> windows, pre_sdl |-> sdl_windows]
    /\ UNCHANGED otherVars

\* laya::window o(std::move(src));
MoveConstruct(o, src) ==
    /\ windows[o] = NoWindow
    /\ windows[src] # NoWindow
    /\ LET m == window_move_ctor(windows[src])
       IN  windows' = [windows EXCEPT ![o] = m.self, ![src] = m.other]
    /\ last' = [op |-> "move-construct", obj |-> o, src |-> src, pre |-> windows,
                pre_sdl |-> sdl_windows]
    /\ UNCHANGED <<sdl_windows, otherVars>>

\* o = std::move(src);  src may be o itself.
MoveAssign(o, src) ==
    /\ windows[o] # NoWindow
    /\ windows[src] # NoWindow
    /\ LET m == window_move_assign(windows[o], windows[src], o = src, sdl_windows)
       IN  /\ windows' = IF o = src THEN [windows EXCEPT ![o] = m.self]
                         ELSE [windows EXCEPT ![o] = m.self, ![src] = m.other]
           /\ sdl_windows' = m.sdl
    /\ last' = [op |-> "move-assign", obj |-> o, src |-> src, pre |-> windows,
                pre_sdl |-> sdl_windows]
    /\ UNCHANGED otherVars

\* o.show(), o.hide(), o.set_title(..), o.set_size(..), o.get_size()
Use(o, op, sdl_ok) ==
    /\ windows[o] # NoWindow
    /\ last' = [op |-> op, obj |-> o, out |-> handle_op(windows[o], sdl_ok), pre |-> windows,
                pre_sdl |-> sdl_windows]
    /\ UNCHANGED <<winVars, otherVars>>

InitWindow ==
    /\ windows = [o \in WinObjs |-> NoWindow]
    /\ sdl_windows = <<>>
    /\ arrivals = <<>>
    /\ received = <<>>
    /\ begun = <<>>
    /\ InitQueueSide
    /\ InitEquivIdle
    /\ InitConvIdle

NextWindow ==
    \/ \E o \in WinObjs, ok, id_ok \in BOOLEAN : Construct(o, ok, id_ok)
    \/ \E o \in WinObjs : Destruct(o)
    \/ \E o, src \in WinObjs : MoveConstruct(o, src)
    \/ \E o, src \in WinObjs : MoveAssign(o, src)
    \/ \E o \in WinObjs, op \in HandleOps, sdl_ok \in BOOLEAN : Use(o, op, sdl_ok)

SpecWindow == InitWindow /\ [][NextWindow]_vars

(***************************************************************************)
(* Properties of window, checked under SpecWindow.                         *)
(***************************************************************************)
LiveObj(ws, o) == ws[o] # NoWindow

WindowOps == {"construct", "destruct", "move-construct", "move-assign"} \cup HandleOps

\* B was move-constructed or move-assigned from a valid A: B is valid with
\* A's former handle and id, A is invalid with the null handle and id 0.
MoveTransfers ==
    (/\ last.op \in {"move-construct", "move-assign"}
     /\ last.obj # last.src
     /\ is_valid(last.pre[last.src])) =>
        /\ is_valid(windows[last.obj])
        /\ windows[last.obj] = last.pre[last.src]
        /\ ~is_valid(windows[last.src])
        /\ windows[last.src] = [m_window |-> 0, m_id |-> 0]

\* A handle-using member called on an invalid window throws without an
\* engine call and changes nothing.
InvalidUseThrows ==
    (last.op \in HandleOps /\ ~is_valid(last.pre[last.obj])) =>
        /\ last.out.threw
        /\ last.out.what = "Window handle is null"
        /\ last.out.sdl_calls = 0
        /\ windows = last.pre
        /\ sdl_windows = last.pre_sdl

\* C22 as stated: after B is move-constructed or move-assigned from A, B is
\* valid with A's former handle and id, A is invalid with the null handle
\* and id 0, every handle-using member of A throws without calling the
\* engine, and A stays invalid under every later operation.
C22_MovedFromStaysInvalid ==
    /\ MoveTransfers
    /\ InvalidUseThrows
    /\ last.op \in WindowOps =>
          \A o \in WinObjs :
              (LiveObj(last.pre, o) /\ ~is_valid(last.pre[o]) /\ LiveObj(windows, o)) =>
                  ~is_valid(windows[o])

\* C22 amended: as stated, except that an invalid window stays invalid
\* under every later operation other than a move assignment to it, after
\* which it is valid exactly when the source was.
C22_MovedFromInvalidUntilAssigned ==
    /\ MoveTransfers
    /\ InvalidUseThrows
    /\ last.op \in WindowOps =>
          \A o \in WinObjs :
              (LiveObj(last.pre, o) /\ ~is_valid(last.pre[o]) /\ LiveObj(windows, o)) =>
                  IF last.op = "move-assign" /\ last.obj = o
                  THEN is_valid(windows[o]) <=> is_valid(last.pre[last.src])
                  ELSE ~is_valid(windows[o])

\* A moved-from window was the target of a move assignment from a valid
\* window and is valid again.
C22_Witness ==
    /\ last.op = "move-assign"
    /\ last.obj # last.src
    /\ last.pre[last.obj] = [m_window |-> 0, m_id |-> 0]
    /\ is_valid(last.pre[last.src])
    /\ is_valid(windows[last.obj])

\* The window objects that hold the handle h.
Owners(ws, h) == { o \in WinObjs : LiveObj(ws, o) /\ ws[o].m_window = h }

\* The handles on which the last operation called SDL_DestroyWindow.
DestroyedByLast ==
    { h \in 1..Len(last.pre_sdl) : sdl_windows[h].destroyed # last.pre_sdl[h].destroyed }

\* C30: every native handle is owned by at most one window object and is
\* destroyed at most once, exactly when it has no owner left; a move
\* assignment destroys the target's previous handle and takes the source's;
\* a self-move-assignment changes nothing; a destructor destroys the handle
\* its object owns and nothing when the object is moved-from.
C30_HandleOwnedOnceDestroyedOnce ==
    /\ \A h \in 1..Len(sdl_windows) :
          /\ Cardinality(Owners(windows, h)) <= 1
          /\ sdl_windows[h].destroyed <= 1
          /\ sdl_windows[h].destroyed = 1 <=> Owners(windows, h) = {}
    /\ \A o \in WinObjs :
          (LiveObj(windows, o) /\ windows[o].m_window # 0) =>
              /\ windows[o].m_window \in 1..Len(sdl_windows)
              /\ windows[o].m_id = SDL_GetWindowID(windows[o].m_window, TRUE)
    /\ (last.op = "move-assign" /\ last.obj # last.src) =>
          /\ DestroyedByLast = {last.pre[last.obj].m_window} \ {0}
          /\ windows[last.obj].m_window = last.pre[last.src].m_window
    /\ (last.op = "move-assign" /\ last.obj = last.src) =>
          /\ windows = last.pre
          /\ sdl_windows = last.pre_sdl
    /\ last.op = "destruct" => DestroyedByLast = {last.pre[last.obj].m_window} \ {0}
    /\ last.op \in {"move-construct"} \cup HandleOps => sdl_windows = last.pre_sdl

(***************************************************************************)
(* Several consumers of the one engine queue.  The engine's queue calls    *)
(* are atomic, so consumers interleave between them: a step of a consumer  *)
(* is one iteration of the loop of fetch_next(), of the event_range        *)
(* constructor or of wait_event(), that is one SDL_PollEvent or            *)
(* SDL_WaitEvent call with the conversion of what it returned.  Consumers  *)
(* 1 and 2 are the lazy cursors iter[1] and iter[2], 3 constructs          *)
(* event_range objects and 4 calls wait_event().  In these specifications  *)
(* pc[c] is the loop consumer c is in ("idle" between calls), arrivals is  *)
(* every record the engine delivered, in order, the k-th with timestamp k, *)
(* received[c] is every event consumer c obtained, in order, and begun[c]  *)
(* is the number of arrivals when cursor c was last made by begin().       *)
(***************************************************************************)
MaxArrivals == 2

Consumers == {1, 2, 3, 4}

\* The k-th record the engine delivers: a mouse motion (convertible) or a
\* record of type 0 (unsupported).
ArrivalSamples(k) == {RawMotion(U64(0, k), 42, 21, 8), RawOther(0, U64(0, k))}

consFrame == <<winVars, passes, since, Q0, yielded, convVars>>

\* The engine delivers its next record.
Arrive(r) ==
    /\ Len(arrivals) < MaxArrivals
    /\ Len(queue) < MaxQueue
    /\ queue' = Append(queue, r)
    /\ arrivals' = Append(arrivals, r)
    /\ last' = [op |-> "arrive"]
    /\ UNCHANGED <<received, begun, pc, iter, range, other_range, consFrame>>

\* A step of cursor c from the slot it: the iteration, and what it leaves
\* in the history.
CursorPoll(c, it, op) ==
    LET res == fetch_next_step(queue, it)
    IN  /\ queue' = res.queue
        /\ iter' = [iter EXCEPT ![c] = res.it]
        /\ pc' = [pc EXCEPT ![c] = IF res.done THEN "idle" ELSE "fetch_next"]
        /\ received' = IF res.done /\ res.it.m_has_event
                       THEN [received EXCEPT ![c] = Append(@, res.it.m_current_event)]
                       ELSE received
        /\ last' = [op |-> op, c |-> c, done |-> res.done]
        /\ UNCHANGED <<arrivals, range, other_range, consFrame>>

\* it = view.begin(): a pass of cursor c starts with its first iteration.
CursorBegin(c) ==
    /\ pc[c] = "idle"
    /\ begun' = [begun EXCEPT ![c] = Len(arrivals)]
    /\ CursorPoll(c, DefaultIter, "begin")

\* An advance that sees only the records that were pending at begin().
CursorAdvance_snapshot(c) ==
    /\ iter[c] # NoIter
    /\ pc[c] \in {"idle", "fetch_next"}
    /\ IF Len(queue) <= Len(arrivals) - begun[c]
       THEN /\ iter' = [iter EXCEPT ![c].m_has_event = FALSE]
            /\ pc' = [pc EXCEPT ![c] = "idle"]
            /\ last' = [op |-> "++it", c |-> c, done |-> TRUE]
            /\ UNCHANGED <<queue, received, arrivals, range, other_range, consFrame>>
       ELSE CursorPoll(c, iter[c], "++it")
    /\ UNCHANGED begun

\* ++it, or the next iteration of the fetch_next() that cursor c is in.
CursorAdvance(c) ==
    /\ iter[c] # NoIter
    /\ pc[c] \in {"idle", "fetch_next"}
    /\ CursorPoll(c, iter[c], "++it")
    /\ UNCHANGED begun

\* event_range{}: the construction starts (a range made earlier is gone),
\* or the constructor that consumer 3 is in makes its next iteration.
RangeStep ==
    /\ pc[3] \in {"idle", "event_range"}
    /\ LET m_events == IF pc[3] = "idle" THEN <<>> ELSE range.m_events
           res == event_range_ctor_step(queue, m_events)
       IN  /\ queue' = res.queue
           /\ range' = [constructed |-> res.done, m_events |-> res.m_events]
           /\ pc' = [pc EXCEPT ![3] = IF res.done THEN "idle" ELSE "event_range"]
           /\ received' = IF Len(res.m_events) > Len(m_events)
                          THEN [received EXCEPT ![3] = Append(@, res.m_events[Len(res.m_events)])]
                          ELSE received
           /\ last' = [op |-> "event_range", c |-> 3, done |-> res.done]
    /\ UNCHANGED <<arrivals, begun, other_range, iter, consFrame>>

\* wait_event(): the call starts, or the call that consumer 4 is in makes
\* its next iteration; a call entered on the empty queue blocks in
\* SDL_WaitEvent, which returns when a record is pending or the wait fails.
WaitStep(fails) ==
    /\ pc[4] \in {"idle", "wait_event"}
    /\ IF queue # <<>> \/ fails THEN TRUE ELSE pc[4] = "idle"
    /\ LET res == wait_event_step(queue, fails)
       IN  /\ queue' = res.queue
           /\ pc' = [pc EXCEPT ![4] = IF res.done THEN "idle" ELSE "wait_event"]
           /\ received' = IF res.done /\ res.outcome.value.has_value
                          THEN [received EXCEPT ![4] = Append(@, res.outcome.value.value)]
                          ELSE received
           /\ last' = [op |-> "wait_event", c |-> 4, done |-> res.done]
    /\ UNCHANGED <<arrivals, begun, iter, range, other_range, consFrame>>

InitConsumers ==
    /\ InitQueueSide
    /\ Q0 = <<>>
    /\ yielded = <<>>
    /\ InitConvIdle
    /\ windows = <<>>
    /\ sdl_windows = <<>>
    /\ pc = [c \in Consumers |-> "idle"]
    /\ arrivals = <<>>
    /\ received = [c \in Consumers |-> <<>>]
    /\ begun = [c \in IterIds |-> 0]

NextConsumers ==
    \/ \E r \in ArrivalSamples(Len(arrivals) + 1) : Arrive(r)
    \/ \E c \in IterIds : CursorBegin(c)
    \/ \E c \in IterIds : CursorAdvance(c)
    \/ RangeStep
    \/ \E fails \in BOOLEAN : WaitStep(fails)

SpecConsumers == InitConsumers /\ [][NextConsumers]_vars

\* One lazy cursor and the constructor of event_range objects, with the
\* engine delivering records at any moment.
NextPass ==
    \/ \E r \in ArrivalSamples(Len(arrivals) + 1) : Arrive(r)
    \/ CursorBegin(1)
    \/ CursorAdvance(1)
    \/ RangeStep

SpecPass == InitConsumers /\ [][NextPass]_vars

(***************************************************************************)
(* Properties of the consumers, checked under SpecConsumers and SpecPass.  *)
(***************************************************************************)
\* The arrival numbers of the convertible records among the first n.
ConvertibleArrivals(n) == { k \in 1..n : Convertible(arrivals[k]) }

\* The places (consumer, position) at which the k-th arrival was received,
\* and the positions at which it is pending in the queue.
DeliveriesOf(k) ==
    { cp \in Consumers \X (1..MaxArrivals) :
        /\ cp[2] <= Len(received[cp[1]])
        /\ received[cp[1]][cp[2]] = from_sdl_event(arrivals[k]).value }

PendingAt(k) == { i \in 1..Len(queue) : queue[i] = arrivals[k] }

\* C28: whatever the interleaving of the steps of two lazy cursors, of
\* event_range constructions and of wait_event calls, every convertible
\* record that arrived is either received by exactly one consumer, once, or
\* still pending, once; only conversions of arrived records are received;
\* and every consumer receives its events in arrival order.
C28_EachRecordToOneConsumer ==
    /\ \A k \in ConvertibleArrivals(Len(arrivals)) :
          Cardinality(DeliveriesOf(k)) + Cardinality(PendingAt(k)) = 1
    /\ \A c \in Consumers :
          /\ \A i \in 1..Len(received[c]) :
                \E k \in ConvertibleArrivals(Len(arrivals)) :
                    received[c][i] = from_sdl_event(arrivals[k]).value
          /\ \A i, j \in 1..Len(received[c]) :
                i < j => received[c][i].timestamp < received[c][j].timestamp

\* Two convertible records went to two different consumers: the first to
\* a wait_event call and the second to a lazy cursor.
C28_Witness ==
    /\ Len(received[1]) = 1
    /\ Len(received[4]) = 1
    /\ received[4][1].timestamp < received[1][1].timestamp


CursorOps == {"begin", "++it"}

\* A cursor call that returned leaving the cursor terminal found nothing
\* pending: every convertible record that had arrived, before or after
\* begin(), was received, all of them by the cursor when no event_range
\* took any.
PassSeesLateArrivals ==
    (last.op \in CursorOps /\ last.done /\ ~iter[1].m_has_event) =>
        /\ queue = <<>>
        /\ Len(received[1]) + Len(received[3]) =
              Cardinality(ConvertibleArrivals(Len(arrivals)))
        /\ received[3] = <<>> => received[1] = ConversionsOf(arrivals)

\* A constructor that returned left nothing pending.
RangeDrains == (last.op = "event_range" /\ last.done) => queue = <<>>

\* A cursor step taken while a record is pending does not end the pass.
PassGoesOn ==
    (last'.op \in CursorOps /\ queue # <<>>) =>
        ~(last'.done /\ ~iter'[1].m_has_event)

\* A constructed event_range does not change when a record arrives.
RangeIsFixed == (range.constructed /\ arrivals' # arrivals) => range' = range

\* C29: the lazy cursor takes no snapshot: a cursor stays non-terminal as
\* long as its steps find a record pending, so a pass yields the records
\* that arrive after begin() behind the earlier ones and ends only on an
\* empty queue, never while the producer keeps a convertible record
\* pending; an event_range holds what its constructor's loop found, up to
\* an empty queue, and nothing that arrives later.
C29_NoSnapshot ==
    /\ [](PassSeesLateArrivals /\ RangeDrains)
    /\ [][PassGoesOn /\ RangeIsFixed]_vars

\* A pass made of begin() and one ++it yielded, after a record that was
\* pending at begin(), a record that arrived after begin().
C29_Witness ==
    /\ last.op = "++it"
    /\ begun[1] = 1
    /\ Len(received[1]) = 2
    /\ received[1][2].timestamp > begun[1]
    /\ iter[1].m_has_event

=============================================================================
